---- MODULE Spec2Model ----
(***************************************************************************)
(* Folder service of pkg/services/folder/folderimpl/folder.go: a tree of   *)
(* folders kept in two stores, the legacy dashboard table and the nested   *)
(* folder table, behind one orchestrating service.                         *)
(*                                                                         *)
(* UIDs are modelled as the numbers 1..NumUIDs; NoUID (0) is the empty     *)
(* UID "", which names the root.  One organisation is modelled.            *)
(***************************************************************************)
EXTENDS Integers, Sequences, FiniteSets, TLC

VARIABLES
    dash,       \* legacy store: UID -> [id, title, folderUID, version]
    fold,       \* nested store: UID -> [title, parentUID]
    nextID,     \* next sequential id of the legacy table
    nested,     \* feature toggle FlagNestedFolders
    returned,   \* what the last completed call returned
    inflight,   \* calls that have begun and not yet ended
    registry,   \* the kinds with a handler in the capability registry
    mutex       \* the lock of the registry: "free" or "held"

vars == <<dash, fold, nextID, nested, returned, inflight, registry, mutex>>

----------------------------------------------------------------------------
(* Bounds of the model *)

NumUIDs == 2          \* UIDs used by the requests of Spec
NumTreeUIDs == 3      \* UIDs used by the requests of SpecDel, SpecMv, SpecMoves and SpecConc
NumDeepUIDs == 9      \* UIDs used by the requests of SpecDeep
MaxID == 3            \* legacy ids handed out in a run
MaxSaves == 1         \* Move and Update calls that save a legacy row again in a run
MaxRoots == 2        \* chains of folders built side by side
MaxInflight == 2     \* calls between their checks and their writes

(* Program constant *)
MaxNestedFolderDepth == 8

NoUID == 0
NoChange == 0 - 1     \* a nil *string or *int64 in a command: the field is not given
NestedIDBase == 100   \* where the ids of the nested table start in the model
UIDs == 1..NumUIDs
TreeUIDs == 1..NumTreeUIDs
DeepUIDs == 1..NumDeepUIDs

Nil == "nil"

(* Errors, by their Go names *)
ErrBadRequest == "folder.ErrBadRequest"
ErrInternal == "folder.ErrInternal"
ErrNestedNotFound == "folder.ErrFolderNotFound"
ErrMaximumDepthReached == "folder.ErrMaximumDepthReached"
ErrCircularReference == "folder.ErrCircularReference"
ErrFolderNotFound == "dashboards.ErrFolderNotFound"
ErrFolderAccessDenied == "dashboards.ErrFolderAccessDenied"
ErrFolderTitleEmpty == "dashboards.ErrFolderTitleEmpty"
ErrFolderSameNameExists == "dashboards.ErrFolderSameNameExists"
ErrFolderWithSameUIDExists == "dashboards.ErrFolderWithSameUIDExists"
ErrFolderVersionMismatch == "dashboards.ErrFolderVersionMismatch"
ErrDashboardNotFound == "dashboards.ErrDashboardNotFound"
ErrDashboardTitleEmpty == "dashboards.ErrDashboardTitleEmpty"
ErrDashboardUpdateAccessDenied == "dashboards.ErrDashboardUpdateAccessDenied"
ErrDashboardWithSameNameInFolderExists == "dashboards.ErrDashboardWithSameNameInFolderExists"
ErrDashboardWithSameUIDExists == "dashboards.ErrDashboardWithSameUIDExists"
ErrDashboardVersionMismatch == "dashboards.ErrDashboardVersionMismatch"
ErrDashboardFolderNameExists == "dashboards.ErrDashboardFolderNameExists"
ErrStore == "store failure"          \* a failed call of either table
ErrEvaluate == "evaluator failure"   \* a failed call of the access evaluator
ErrStackExhausted == "stack exhausted" \* a recursion that does not return

RootFolderName == "General"

IsNotFound(e) == e \in {ErrFolderNotFound, ErrNestedNotFound}

----------------------------------------------------------------------------
(* Inputs that are not state: the principal's permissions and the call     *)
(* of a collaborator that fails during the request.                        *)

\* A permission is <<action, uid>>; a principal is the set it lacks.
Admin == {}

HasAccess(ac, action, uid) == <<action, uid>> \notin ac

\* A fault names the collaborator call that fails and the folder it is for.
NoFault == [site |-> "none", uid |-> NoUID]

Fails(fault, site, uid) == fault.site = site /\ fault.uid = uid

----------------------------------------------------------------------------
(* Helpers on sequences and sets *)

RECURSIVE SortedSeq(_)
SortedSeq(S) ==
    IF S = {} THEN <<>>
    ELSE LET m == CHOOSE x \in S : \A y \in S : x <= y
         IN  <<m>> \o SortedSeq(S \ {m})

Reverse(s) == [i \in 1..Len(s) |-> s[Len(s) + 1 - i]]

Range(s) == {s[i] : i \in 1..Len(s)}

Without(f, u) == [x \in DOMAIN f \ {u} |-> f[x]]

With(f, u, row) == [x \in DOMAIN f \cup {u} |-> IF x = u THEN row ELSE f[x]]

TrimSpace(t) ==
    CASE t = " "  -> ""
      [] t = " a" -> "a"
      [] t = " b" -> "b"
      [] OTHER    -> t

----------------------------------------------------------------------------
(* Nested tree store (folderimpl store): rows keyed by UID with a parent   *)
(* pointer.                                                                *)

ChildrenOf(f, u) == {c \in DOMAIN f : f[c].parentUID = u}

StoreGetChildren(f, u, fault) ==
    IF Fails(fault, "store.GetChildren", u)
    THEN [err |-> ErrStore, val |-> <<>>]
    ELSE [err |-> Nil, val |-> SortedSeq(ChildrenOf(f, u))]

RECURSIVE ParentChain(_, _, _)
\* the existing ancestors of u, nearest first, at most fuel of them
ParentChain(f, u, fuel) ==
    IF fuel = 0 \/ u \notin DOMAIN f THEN <<>>
    ELSE LET p == f[u].parentUID
         IN  IF p = NoUID \/ p \notin DOMAIN f THEN <<>>
             ELSE <<p>> \o ParentChain(f, p, fuel - 1)

\* ancestors of u from the root down to its parent, u itself excluded
StoreGetParents(f, u, fault) ==
    IF Fails(fault, "store.GetParents", u)
    THEN [err |-> ErrStore, val |-> <<>>]
    ELSE IF u = NoUID THEN [err |-> Nil, val |-> <<>>]
    ELSE IF u \notin DOMAIN f THEN [err |-> ErrNestedNotFound, val |-> <<>>]
    ELSE [err |-> Nil, val |-> Reverse(ParentChain(f, u, Cardinality(DOMAIN f)))]

RECURSIVE HeightFrom(_, _, _, _)
\* breadth-first over the subtree: level holds the folders at distance height
HeightFrom(f, level, parentUID, height) ==
    IF parentUID \in level THEN [err |-> ErrCircularReference, val |-> 0]
    ELSE LET next == UNION {ChildrenOf(f, u) : u \in level}
         IN  IF next = {} \/ height > MaxNestedFolderDepth
             THEN [err |-> Nil, val |-> height]
             ELSE HeightFrom(f, next, parentUID, height + 1)

\* height of the subtree under u; an error when parentUID lies in that subtree
StoreGetHeight(f, u, parentUID, fault) ==
    IF Fails(fault, "store.GetHeight", u)
    THEN [err |-> ErrStore, val |-> 0]
    ELSE HeightFrom(f, {u}, parentUID, 0)

StoreGet(f, u, fault) ==
    IF Fails(fault, "store.Get", u) THEN [err |-> ErrStore]
    ELSE IF u \notin DOMAIN f THEN [err |-> ErrNestedNotFound]
    ELSE [err |-> Nil, val |-> f[u]]

\* A query that several rows match is answered with any of them: with the row
\* the fault names when it is among them, with the row of the least UID otherwise.
Answers(fault, site, uid) == fault.site = site /\ fault.uid = uid

AnyOf(matches, fault, site) ==
    IF \E u \in matches : Answers(fault, site, u)
    THEN CHOOSE u \in matches : Answers(fault, site, u)
    ELSE CHOOSE u \in matches : \A v \in matches : u <= v

\* the query by title: the UID of a row with that title
StoreGetByTitle(f, title, fault) ==
    LET matches == {u \in DOMAIN f : f[u].title = title}
    IN  IF Fails(fault, "store.Get", NoUID) THEN [err |-> ErrStore, uid |-> NoUID]
        ELSE IF matches = {} THEN [err |-> ErrNestedNotFound, uid |-> NoUID]
        ELSE [err |-> Nil, uid |-> AnyOf(matches, fault, "store.Get first")]

\* the id of the nested table's own id column for the row of u, kept apart
\* from the ids of the legacy table
NestedID(u) == NestedIDBase + u

\* the folder the nested store returns for its row of u: the id is the one of
\* the nested table, and the table holds no version
StoreFolder(f, u) ==
    [uid |-> u, id |-> NestedID(u), title |-> f[u].title, parentUID |-> f[u].parentUID,
     version |-> 0]

\* the batch lookup of the nested store: the folders of the UIDs that have a row
StoreGetFolders(f, uids, fault) ==
    IF Fails(fault, "store.GetFolders", NoUID) THEN [err |-> ErrStore, val |-> <<>>]
    ELSE [err |-> Nil, val |-> SortedSeq(uids \cap DOMAIN f)]

StoreCreate(f, u, title, parentUID, fault) ==
    IF Fails(fault, "store.Create", u) \/ u \in DOMAIN f
    THEN [err |-> ErrStore, fold |-> f]
    ELSE [err |-> Nil, fold |-> With(f, u, [title |-> title, parentUID |-> parentUID])]

\* newTitle is Nil and newParentUID is NoChange when the command leaves them alone
StoreUpdate(f, u, newTitle, newParentUID, fault) ==
    IF Fails(fault, "store.Update", u) THEN [err |-> ErrStore, fold |-> f]
    ELSE IF u \notin DOMAIN f THEN [err |-> ErrNestedNotFound, fold |-> f]
    ELSE [err |-> Nil,
          fold |-> [f EXCEPT ![u] =
              [title |-> IF newTitle = Nil THEN @.title ELSE newTitle,
               parentUID |-> IF newParentUID = NoChange THEN @.parentUID ELSE newParentUID]]]

StoreDelete(f, u, fault) ==
    IF Fails(fault, "store.Delete", u) THEN [err |-> ErrStore, fold |-> f]
    ELSE [err |-> Nil, fold |-> Without(f, u)]

----------------------------------------------------------------------------
(* Legacy flat store (dashboards.Store and folder.FolderStore): folders as *)
(* rows of the dashboard table, with a sequential id and a version.        *)

GetFolderByUID(d, u, fault) ==
    IF Fails(fault, "GetFolderByUID", u) THEN [err |-> ErrStore]
    ELSE IF u \notin DOMAIN d THEN [err |-> ErrFolderNotFound]
    ELSE [err |-> Nil, val |-> d[u]]

GetFolderByID(d, id, u, fault) ==
    IF Fails(fault, "GetFolderByID", u) THEN [err |-> ErrStore]
    ELSE IF \A x \in DOMAIN d : d[x].id # id THEN [err |-> ErrFolderNotFound]
    ELSE [err |-> Nil, val |-> d[CHOOSE x \in DOMAIN d : d[x].id = id]]

\* the lookup by title: the UID of a folder row with that title
GetFolderByTitle(d, title, fault) ==
    LET matches == {u \in DOMAIN d : d[u].title = title}
    IN  IF Fails(fault, "GetFolderByTitle", NoUID) THEN [err |-> ErrStore, uid |-> NoUID]
        ELSE IF matches = {} THEN [err |-> ErrFolderNotFound, uid |-> NoUID]
        ELSE [err |-> Nil, uid |-> AnyOf(matches, fault, "GetFolderByTitle first")]

\* the folder a legacy row is returned as
FolderOf(d, u) ==
    [uid |-> u, id |-> d[u].id, title |-> d[u].title, parentUID |-> d[u].folderUID,
     version |-> d[u].version]

\* the batch lookup: the rows of the UIDs among uids that have one, by UID.
\* Under the fault "GetFolders row" the answer lacks the row of one folder, as
\* when the row has gone from the table since an earlier read of the call.
GetFolders(d, uids, fault) ==
    IF Fails(fault, "GetFolders", NoUID) THEN [err |-> ErrStore]
    ELSE [err |-> Nil,
          val |-> [u \in {x \in uids \cap DOMAIN d : ~Fails(fault, "GetFolders row", x)}
                      |-> d[u]]]

GetDashboard(d, u, fault) ==
    IF Fails(fault, "GetDashboard", u) THEN [err |-> ErrStore]
    ELSE IF u \notin DOMAIN d THEN [err |-> ErrDashboardNotFound]
    ELSE [err |-> Nil, val |-> d[u]]

\* r is the row about to be saved: [id, uid, title, folderUID, version]; id 0 is a new row
ValidateDashboardBeforeSave(d, r, overwrite, fault) ==
    IF Fails(fault, "ValidateDashboardBeforeSave", r.uid) THEN ErrStore
    ELSE IF r.id = 0 /\ r.uid \in DOMAIN d THEN ErrDashboardWithSameUIDExists
    ELSE IF \E x \in DOMAIN d \ {r.uid} :
                d[x].title = r.title /\ d[x].folderUID = r.folderUID
         THEN ErrDashboardWithSameNameInFolderExists
    ELSE IF r.id # 0 /\ ~overwrite /\ r.version # d[r.uid].version
         THEN ErrDashboardVersionMismatch
    ELSE Nil

\* the row is saved only if overwrite is set or the version it carries is the
\* version of the row in the table: the optimistic lock of the table
SaveDashboard(d, nid, r, overwrite, fault) ==
    IF Fails(fault, "SaveDashboard", r.uid) THEN [err |-> ErrStore, dash |-> d, nextID |-> nid]
    ELSE IF r.id # 0 /\ r.uid \notin DOMAIN d
    THEN [err |-> ErrDashboardNotFound, dash |-> d, nextID |-> nid]
    ELSE IF r.id # 0 /\ ~overwrite /\ r.version # d[r.uid].version
    THEN [err |-> ErrDashboardVersionMismatch, dash |-> d, nextID |-> nid]
    ELSE IF r.id = 0
    THEN [err |-> Nil, id |-> nid, nextID |-> nid + 1,
          dash |-> With(d, r.uid, [id |-> nid, title |-> r.title,
                                   folderUID |-> r.folderUID, version |-> 1])]
    ELSE [err |-> Nil, id |-> r.id, nextID |-> nid,
          dash |-> With(d, r.uid, [id |-> r.id, title |-> r.title,
                                   folderUID |-> r.folderUID,
                                   version |-> d[r.uid].version + 1])]

DeleteDashboard(d, id, u, fault) ==
    IF Fails(fault, "DeleteDashboard", u) THEN [err |-> ErrStore, dash |-> d]
    ELSE IF \A x \in DOMAIN d : d[x].id # id THEN [err |-> ErrDashboardNotFound, dash |-> d]
    ELSE [err |-> Nil, dash |-> Without(d, CHOOSE x \in DOMAIN d : d[x].id = id)]

----------------------------------------------------------------------------
(* Guardian and access evaluator: the permission checks of the service     *)

Evaluate(ac, action, uid, fault) ==
    IF Fails(fault, "Evaluate", uid) THEN [err |-> ErrEvaluate, val |-> FALSE]
    ELSE [err |-> Nil, val |-> HasAccess(ac, action, uid)]

\* a guardian for folder uid answering CanView, CanSave, CanDelete, CanCreate
GuardianCan(ac, action, uid, fault) ==
    IF Fails(fault, "guardian", uid) THEN [err |-> ErrStore, val |-> FALSE]
    ELSE [err |-> Nil, val |-> HasAccess(ac, action, uid)]

----------------------------------------------------------------------------
(* The database transaction both stores take part in *)

\* pre: the stores when the transaction began; out: what its function did
InTransaction(pre, out) ==
    IF out.err = Nil THEN out
    ELSE [out EXCEPT !.dash = pre.dash, !.fold = pre.fold]

----------------------------------------------------------------------------
(* Folder service *)

toFolderError(err) ==
    CASE err = ErrDashboardTitleEmpty -> ErrFolderTitleEmpty
      [] err = ErrDashboardUpdateAccessDenied -> ErrFolderAccessDenied
      [] err = ErrDashboardWithSameNameInFolderExists -> ErrFolderSameNameExists
      [] err = ErrDashboardWithSameUIDExists -> ErrFolderWithSameUIDExists
      [] err = ErrDashboardVersionMismatch -> ErrFolderVersionMismatch
      [] err = ErrDashboardNotFound -> ErrFolderNotFound
      [] OTHER -> err

\* the implicit root folder
GeneralFolder ==
    [uid |-> NoUID, id |-> 0, title |-> RootFolderName, parentUID |-> NoUID, version |-> 0]

\* a query by UID alone
ByUID(u, signedIn) == [uid |-> u, id |-> NoChange, title |-> Nil, signedIn |-> signedIn]

\* the selector Get resolves the folder by: the first one given of UID, id and title
SelectorOf(q) ==
    CASE q.uid # NoChange /\ q.uid # NoUID -> "uid"
      [] q.id # NoChange -> "id"
      [] q.title # Nil -> "title"
      [] OTHER -> "none"

\* the folder of the legacy store the selector resolves to: [err, uid]
getFolderBy(d, q, fault) ==
    LET byID == {x \in DOMAIN d : d[x].id = q.id}
        u == IF byID = {} THEN NoUID ELSE CHOOSE x \in byID : TRUE
    IN  CASE SelectorOf(q) = "uid" ->
                 [err |-> GetFolderByUID(d, q.uid, fault).err, uid |-> q.uid]
          [] SelectorOf(q) = "id" ->
                 IF q.id = 0 THEN [err |-> Nil, uid |-> NoUID]
                 ELSE [err |-> GetFolderByID(d, q.id, u, fault).err, uid |-> u]
          [] SelectorOf(q) = "title" -> GetFolderByTitle(d, q.title, fault)
          [] OTHER -> [err |-> ErrBadRequest, uid |-> NoUID]

\* the query Get passes to the nested store: by the resolved UID when an id was
\* given, else the query as it came
storeGetBy(f, q, resolved, fault) ==
    LET u == IF q.id # NoChange THEN resolved ELSE q.uid
    IN  IF q.id # NoChange \/ q.uid # NoChange
        THEN [err |-> StoreGet(f, u, fault).err, uid |-> u]
        ELSE StoreGetByTitle(f, q.title, fault)

\* q is [uid, id, title, signedIn]; uid and id are NoChange and title is Nil when not given
Get(d, f, q, ac, fault, flag) ==
    LET found == getFolderBy(d, q, fault)
        isGeneral == SelectorOf(q) = "id" /\ q.id = 0
        dashFolder == FolderOf(d, found.uid)
        canView == GuardianCan(ac, "folders:read", found.uid, fault)
        nf == storeGetBy(f, q, found.uid, fault)
    IN  IF ~q.signedIn THEN [err |-> ErrBadRequest]
        ELSE IF found.err # Nil THEN [err |-> found.err]
        ELSE IF isGeneral THEN [err |-> Nil, val |-> GeneralFolder]
        ELSE IF canView.err # Nil THEN [err |-> toFolderError(canView.err)]
        ELSE IF ~canView.val THEN [err |-> ErrFolderAccessDenied]
        ELSE IF ~flag THEN [err |-> Nil, val |-> dashFolder]
        ELSE IF nf.err # Nil THEN [err |-> nf.err]
        ELSE [err |-> Nil,
              val |-> [StoreFolder(f, nf.uid) EXCEPT !.id = dashFolder.id,
                                                     !.version = dashFolder.version]]

RECURSIVE filterChildren(_, _, _, _, _, _)
\* the loop of GetChildren over the children the nested store listed;
\* perChild says whether each child is checked for view on its own
filterChildren(children, dashFolders, perChild, f, ac, fault) ==
    IF children = <<>> THEN [err |-> Nil, val |-> <<>>]
    ELSE LET u == Head(children)
             rest == filterChildren(Tail(children), dashFolders, perChild, f, ac, fault)
             child == [StoreFolder(f, u) EXCEPT !.id = dashFolders[u].id]
             canView == GuardianCan(ac, "folders:read", u, fault)
         IN  IF u \notin DOMAIN dashFolders THEN rest
             ELSE IF ~perChild
             THEN IF rest.err # Nil THEN rest
                  ELSE [err |-> Nil, val |-> <<child>> \o rest.val]
             ELSE IF canView.err # Nil THEN [err |-> canView.err, val |-> <<>>]
             ELSE IF rest.err # Nil THEN rest
             ELSE IF canView.val THEN [err |-> Nil, val |-> <<child>> \o rest.val]
             ELSE rest

\* the listing of GetChildren once the parent has been checked
listChildren(d, f, q, perChild, ac, fault) ==
    LET children == StoreGetChildren(f, q.uid, fault)
        dashFolders == GetFolders(d, Range(children.val), fault)
    IN  IF children.err # Nil THEN [err |-> children.err, val |-> <<>>]
        ELSE IF dashFolders.err # Nil THEN [err |-> ErrInternal, val |-> <<>>]
        ELSE filterChildren(children.val, dashFolders.val, perChild, f, ac, fault)

\* a GetChildren that does not check the parent
GetChildrenOfAny(d, f, q, ac, fault) ==
    IF ~q.signedIn THEN [err |-> ErrBadRequest, val |-> <<>>]
    ELSE listChildren(d, f, q, q.uid = NoUID, ac, fault)

\* a GetChildren that checks no child on its own, at the root either
GetChildrenKeepingAll(d, f, q, ac, fault) ==
    LET canView == GuardianCan(ac, "folders:read", q.uid, fault)
    IN  IF ~q.signedIn THEN [err |-> ErrBadRequest, val |-> <<>>]
        ELSE IF q.uid # NoUID /\ canView.err # Nil THEN [err |-> canView.err, val |-> <<>>]
        ELSE IF q.uid # NoUID /\ ~canView.val THEN [err |-> ErrFolderAccessDenied, val |-> <<>>]
        ELSE listChildren(d, f, q, FALSE, ac, fault)

\* q is [uid, signedIn]; uid is NoUID for the children of the root
GetChildren(d, f, q, ac, fault) ==
    LET canView == GuardianCan(ac, "folders:read", q.uid, fault)
    IN  IF ~q.signedIn THEN [err |-> ErrBadRequest, val |-> <<>>]
        ELSE IF q.uid # NoUID /\ canView.err # Nil THEN [err |-> canView.err, val |-> <<>>]
        ELSE IF q.uid # NoUID /\ ~canView.val THEN [err |-> ErrFolderAccessDenied, val |-> <<>>]
        ELSE listChildren(d, f, q, q.uid = NoUID, ac, fault)

GetParents(f, u, fault, flag) ==
    IF ~flag THEN [err |-> Nil, val |-> <<>>]
    ELSE StoreGetParents(f, u, fault)

\* user is [folders, dashboards]: the UIDs of the folder scopes among the
\* user's folders:read and dashboards:read permissions
getAvailableNonRootFolders(f, user, fault) ==
    LET folderUids == user.folders \cup user.dashboards
        dashFolders == StoreGetFolders(f, folderUids, fault)
    IN  IF folderUids = {} THEN [err |-> Nil, val |-> <<>>]
        ELSE IF dashFolders.err # Nil THEN [err |-> ErrInternal, val |-> <<>>]
        ELSE [err |-> Nil,
              val |-> SelectSeq(dashFolders.val, LAMBDA u : f[u].parentUID # NoUID)]

RECURSIVE deduplicateByParentOnly(_, _, _, _, _)
\* the filter of GetSharedWithMe that looks at the direct parent only
deduplicateByParentOnly(f, folders, allFolders, fault, flag) ==
    IF folders = <<>> THEN <<>>
    ELSE LET u == Head(folders)
             rest == deduplicateByParentOnly(f, Tail(folders), allFolders, fault, flag)
         IN  IF f[u].parentUID \in allFolders THEN rest ELSE <<u>> \o rest

RECURSIVE deduplicateAvailableFolders(_, _, _, _, _)
\* folders: the UIDs still to be looked at; allFolders: the UIDs of the
\* granted folders and of the root folders
deduplicateAvailableFolders(f, folders, allFolders, fault, flag) ==
    IF folders = <<>> THEN <<>>
    ELSE LET u == Head(folders)
             rest == deduplicateAvailableFolders(f, Tail(folders), allFolders, fault, flag)
             parents == GetParents(f, u, fault, flag)
         IN  IF f[u].parentUID \in allFolders THEN rest
             ELSE IF parents.err # Nil THEN rest
             ELSE IF Range(parents.val) \cap allFolders # {} THEN rest
             ELSE <<u>> \o rest

\* the view permissions the guardian finds for a user with these scopes on a
\* folder at the root: those of its folders:read scopes
ViewOfRoots(user, U) == {<<"folders:read", u>> : u \in U \ user.folders}

\* the UIDs of the folders shared with the user
GetSharedWithMe(d, f, user, ac, fault, flag) ==
    LET availableNonRootFolders == getAvailableNonRootFolders(f, user, fault)
        rootFolders == GetChildren(d, f, [uid |-> NoUID, signedIn |-> TRUE], ac, fault)
        allFolders == Range(availableNonRootFolders.val)
                          \cup {rootFolders.val[i].uid : i \in 1..Len(rootFolders.val)}
    IN  IF availableNonRootFolders.err # Nil THEN [err |-> ErrInternal, val |-> <<>>]
        ELSE IF rootFolders.err # Nil THEN [err |-> ErrInternal, val |-> <<>>]
        ELSE [err |-> Nil,
              val |-> deduplicateAvailableFolders(f, availableNonRootFolders.val,
                                                  allFolders, fault, flag)]

\* the kind under which GetDescendantCounts reports the subfolders
StandardKindFolder == "folder"

\* the kinds a handler can be registered for
Kinds == {"dashboard", "alertrule", "librarypanel"}

\* what the handler of kind k counts in folder u for the user: a number that
\* differs from folder to folder and from kind to kind, so that a sum tells
\* which folders were counted and how often
CountInFolder(k, u, fault) ==
    IF Fails(fault, "CountInFolder", u) THEN [err |-> ErrStore, val |-> 0]
    ELSE [err |-> Nil,
          val |-> <<1, 10, 100>>[u] * (CASE k = "dashboard" -> 1
                                         [] k = "alertrule" -> 2
                                         [] OTHER -> 3)]

RECURSIVE getNestedFoldersOf(_, _, _, _)
RECURSIVE getNestedFolders(_, _, _, _)

\* the loop of getNestedFolders over the children of a folder
getNestedFoldersOf(f, folders, fault, fuel) ==
    IF folders = <<>> THEN [err |-> Nil, val |-> <<>>]
    ELSE LET subfolders == getNestedFolders(f, Head(folders), fault, fuel)
             rest == getNestedFoldersOf(f, Tail(folders), fault, fuel)
         IN  IF subfolders.err # Nil THEN [err |-> subfolders.err, val |-> <<>>]
             ELSE IF rest.err # Nil THEN [err |-> rest.err, val |-> <<>>]
             ELSE [err |-> Nil, val |-> <<Head(folders)>> \o subfolders.val \o rest.val]

\* the subfolders of uid listed without those below its children
getNestedFoldersChildrenOnly(f, uid, fault, fuel) ==
    StoreGetChildren(f, uid, fault)

\* the UIDs of the folders below uid; fuel bounds the depth of the recursion
getNestedFolders(f, uid, fault, fuel) ==
    LET folders == StoreGetChildren(f, uid, fault)
    IN  IF fuel = 0 THEN [err |-> ErrStackExhausted, val |-> <<>>]
        ELSE IF folders.err # Nil THEN [err |-> folders.err, val |-> <<>>]
        ELSE getNestedFoldersOf(f, folders.val, fault, fuel - 1)

RECURSIVE countInFolders(_, _, _)
\* the inner loop of GetDescendantCounts: the counts of kind k over the folders
countInFolders(k, folders, fault) ==
    IF folders = <<>> THEN [err |-> Nil, val |-> 0]
    ELSE LET c == CountInFolder(k, Head(folders), fault)
             rest == countInFolders(k, Tail(folders), fault)
         IN  IF c.err # Nil THEN c
             ELSE IF rest.err # Nil THEN rest
             ELSE [err |-> Nil, val |-> c.val + rest.val]

\* q is [uid, signedIn]; reg is the set of kinds registered
GetDescendantCounts(f, q, reg, fault, flag) ==
    LET subfolders == IF flag THEN getNestedFolders(f, q.uid, fault, Cardinality(DOMAIN f) + 1)
                      ELSE [err |-> Nil, val |-> <<>>]
        result == <<q.uid>> \o subfolders.val
        counts == [k \in reg |-> countInFolders(k, result, fault)]
    IN  IF ~q.signedIn \/ q.uid = NoUID THEN [err |-> ErrBadRequest]
        ELSE IF subfolders.err # Nil THEN [err |-> subfolders.err]
        ELSE IF \E k \in reg : counts[k].err # Nil
        THEN [err |-> counts[CHOOSE k \in reg : counts[k].err # Nil].err]
        ELSE [err |-> Nil,
              val |-> [k \in reg \cup {x \in {StandardKindFolder} : flag} |->
                          IF k \in reg THEN counts[k].val ELSE Len(subfolders.val)]]

EqualFoldRootName(t) == t \in {"General", "general", "GENERAL"}

\* the save command built from the title as given, not trimmed
buildSaveDashboardCommandUntrimmed(d, r, overwrite, ac, fault) ==
    LET valid == ValidateDashboardBeforeSave(d, r, overwrite, fault)
        guard == IF r.id = 0
                 THEN GuardianCan(ac, "folders:create", NoUID, fault)
                 ELSE GuardianCan(ac, "folders:write", r.uid, fault)
    IN  IF r.title = "" THEN [err |-> ErrDashboardTitleEmpty]
        ELSE IF EqualFoldRootName(r.title) THEN [err |-> ErrDashboardFolderNameExists]
        ELSE IF valid # Nil THEN [err |-> valid]
        ELSE IF guard.err # Nil THEN [err |-> guard.err]
        ELSE IF ~guard.val THEN [err |-> ErrDashboardUpdateAccessDenied]
        ELSE [err |-> Nil, cmd |-> r]

\* r is the dashboard model of the folder: [id, uid, title, folderUID, version]
buildSaveDashboardCommand(d, r, overwrite, ac, fault) ==
    LET dsh == [r EXCEPT !.title = TrimSpace(r.title)]
        valid == ValidateDashboardBeforeSave(d, dsh, overwrite, fault)
        guard == IF dsh.id = 0
                 THEN GuardianCan(ac, "folders:create", NoUID, fault)
                 ELSE GuardianCan(ac, "folders:write", dsh.uid, fault)
    IN  IF dsh.title = "" THEN [err |-> ErrDashboardTitleEmpty]
        ELSE IF EqualFoldRootName(dsh.title) THEN [err |-> ErrDashboardFolderNameExists]
        ELSE IF valid # Nil THEN [err |-> valid]
        ELSE IF guard.err # Nil THEN [err |-> guard.err]
        ELSE IF ~guard.val THEN [err |-> ErrDashboardUpdateAccessDenied]
        ELSE [err |-> Nil, cmd |-> dsh]

validateParent(f, parentUID, uid, fault) ==
    LET ancestors == StoreGetParents(f, parentUID, fault)
    IN  IF ancestors.err # Nil THEN ancestors.err
        ELSE IF Len(ancestors.val) = MaxNestedFolderDepth THEN ErrMaximumDepthReached
        ELSE IF parentUID = uid THEN ErrCircularReference
        ELSE IF uid \in Range(ancestors.val) THEN ErrCircularReference
        ELSE Nil

\* the nested write of Create that puts every folder at the root
nestedFolderCreateAtRoot(f, cmd, fault) ==
    StoreCreate(f, cmd.uid, cmd.title, NoUID, fault)

\* cmd is [uid, title, parentUID, signedIn]
nestedFolderCreate(f, cmd, fault) ==
    LET bad == IF cmd.parentUID # NoUID
               THEN validateParent(f, cmd.parentUID, cmd.uid, fault)
               ELSE Nil
    IN  IF bad # Nil THEN [err |-> bad, fold |-> f]
        ELSE StoreCreate(f, cmd.uid, cmd.title, cmd.parentUID, fault)

\* the part of Create up to and including the legacy write
CreateLegacy(d, nid, cmd, ac, fault, flag) ==
    LET sub == flag /\ cmd.parentUID # NoUID
        hasAccess == Evaluate(ac, "folders:write", cmd.parentUID, fault)
        dashFolder == [id |-> 0, uid |-> cmd.uid, title |-> cmd.title,
                       folderUID |-> IF sub THEN cmd.parentUID ELSE NoUID,
                       version |-> 0]
        save == buildSaveDashboardCommand(d, dashFolder, FALSE, ac, fault)
        dsh == SaveDashboard(d, nid, save.cmd, FALSE, fault)
        createdFolder == GetFolderByID(dsh.dash, dsh.id, cmd.uid, fault)
        none == [dash |-> d, nextID |-> nid]
    IN  IF ~cmd.signedIn THEN [err |-> ErrBadRequest] @@ none
        ELSE IF sub /\ hasAccess.err # Nil THEN [err |-> hasAccess.err] @@ none
        ELSE IF sub /\ ~hasAccess.val THEN [err |-> ErrFolderAccessDenied] @@ none
        ELSE IF save.err # Nil THEN [err |-> toFolderError(save.err)] @@ none
        ELSE IF dsh.err # Nil THEN [err |-> toFolderError(dsh.err)] @@ none
        ELSE IF createdFolder.err # Nil
        THEN [err |-> createdFolder.err, dash |-> dsh.dash, nextID |-> dsh.nextID]
        ELSE [err |-> Nil, dash |-> dsh.dash, nextID |-> dsh.nextID,
              id |-> createdFolder.val.id]

\* the nested write of Create with a rollback that removes whichever legacy
\* row carries the UID of the command
CreateStoreDeletingByUID(d, f, id, cmd, fault) ==
    LET nestedFolder == StoreCreate(f, cmd.uid, cmd.title, cmd.parentUID, fault)
    IN  IF nestedFolder.err # Nil
        THEN [err |-> nestedFolder.err,
              dash |-> IF Fails(fault, "DeleteDashboard", cmd.uid) THEN d
                       ELSE Without(d, cmd.uid),
              fold |-> f]
        ELSE [err |-> Nil, dash |-> d, fold |-> nestedFolder.fold]

\* the row Create writes to the nested store once the parent is validated, and
\* the rollback of the legacy row when the write fails
CreateStore(d, f, id, cmd, fault) ==
    LET nestedFolder == StoreCreate(f, cmd.uid, cmd.title, cmd.parentUID, fault)
        deleted == DeleteDashboard(d, id, cmd.uid, fault)
    IN  IF nestedFolder.err # Nil
        THEN [err |-> nestedFolder.err, dash |-> deleted.dash, fold |-> f]
        ELSE [err |-> Nil, dash |-> d, fold |-> nestedFolder.fold]

\* the nested write of Create without the rollback of the legacy row
CreateNestedKeepingLegacy(d, f, id, cmd, fault) ==
    LET nestedFolder == nestedFolderCreate(f, cmd, fault)
    IN  IF nestedFolder.err # Nil
        THEN [err |-> nestedFolder.err, dash |-> d, fold |-> f]
        ELSE [err |-> Nil, dash |-> d, fold |-> nestedFolder.fold]

\* the nested write of Create and the rollback of the legacy row when it fails
CreateNested(d, f, id, cmd, fault) ==
    LET nestedFolder == nestedFolderCreate(f, cmd, fault)
        deleted == DeleteDashboard(d, id, cmd.uid, fault)
    IN  IF nestedFolder.err # Nil
        THEN [err |-> nestedFolder.err, dash |-> deleted.dash, fold |-> f]
        ELSE [err |-> Nil, dash |-> d, fold |-> nestedFolder.fold]

Create(d, f, nid, cmd, ac, fault, flag) ==
    LET legacy == CreateLegacy(d, nid, cmd, ac, fault, flag)
        both == CreateNested(legacy.dash, f, legacy.id, cmd, fault)
    IN  IF legacy.err # Nil
        THEN [err |-> legacy.err, dash |-> legacy.dash, fold |-> f, nextID |-> legacy.nextID]
        ELSE [err |-> both.err, dash |-> both.dash, fold |-> both.fold,
              nextID |-> legacy.nextID]

\* the dashboard model brought up to date with the title the command names
\* and left with the version read from the table
prepareForUpdateKeepingVersion(dashFolder, cmd) ==
    [dashFolder EXCEPT
        !.title = TrimSpace(IF cmd.newTitle # Nil /\ cmd.newTitle # "" THEN cmd.newTitle
                            ELSE dashFolder.title)]

\* the dashboard model brought up to date with the title and the version of
\* the command
prepareForUpdate(dashFolder, cmd) ==
    [dashFolder EXCEPT
        !.title = TrimSpace(IF cmd.newTitle # Nil /\ cmd.newTitle # "" THEN cmd.newTitle
                            ELSE dashFolder.title),
        !.version = cmd.version]

\* cmd is [uid, newTitle, newParentUID, version, overwrite, signedIn]
legacyUpdate(d, nid, cmd, ac, fault) ==
    LET queryResult == GetDashboard(d, cmd.uid, fault)
        cur == queryResult.val
        dashFolder == prepareForUpdate(
                          [id |-> cur.id, uid |-> cmd.uid, title |-> cur.title,
                           folderUID |-> IF cmd.newParentUID # NoChange
                                         THEN cmd.newParentUID ELSE cur.folderUID,
                           version |-> cur.version], cmd)
        save == buildSaveDashboardCommand(d, dashFolder, cmd.overwrite, ac, fault)
        dsh == SaveDashboard(d, nid, save.cmd, cmd.overwrite, fault)
        foldr == GetFolderByID(dsh.dash, dsh.id, cmd.uid, fault)
    IN  IF queryResult.err # Nil THEN [err |-> toFolderError(queryResult.err), dash |-> d]
        ELSE IF ~cmd.signedIn THEN [err |-> ErrBadRequest, dash |-> d]
        ELSE IF save.err # Nil THEN [err |-> toFolderError(save.err), dash |-> d]
        ELSE IF dsh.err # Nil THEN [err |-> toFolderError(dsh.err), dash |-> d]
        ELSE IF foldr.err # Nil THEN [err |-> foldr.err, dash |-> dsh.dash]
        ELSE [err |-> Nil, dash |-> dsh.dash]

\* an Update that returns every error of the nested store
UpdateStrict(d, f, nid, cmd, ac, fault) ==
    LET dashFolder == legacyUpdate(d, nid, cmd, ac, fault)
        foldr == StoreUpdate(f, cmd.uid, cmd.newTitle, NoChange, fault)
    IN  IF ~cmd.signedIn THEN [err |-> ErrBadRequest, dash |-> d, fold |-> f]
        ELSE IF dashFolder.err # Nil
        THEN [err |-> dashFolder.err, dash |-> dashFolder.dash, fold |-> f]
        ELSE IF foldr.err # Nil
        THEN [err |-> foldr.err, dash |-> dashFolder.dash, fold |-> foldr.fold]
        ELSE [err |-> Nil, dash |-> dashFolder.dash, fold |-> foldr.fold,
              val |-> [StoreFolder(foldr.fold, cmd.uid) EXCEPT
                           !.id = dashFolder.dash[cmd.uid].id,
                           !.version = dashFolder.dash[cmd.uid].version]]

\* an Update that re-saves the legacy row and leaves the nested row alone
UpdateLegacyOnly(d, f, nid, cmd, ac, fault) ==
    LET dashFolder == legacyUpdate(d, nid, cmd, ac, fault)
    IN  IF ~cmd.signedIn THEN [err |-> ErrBadRequest, dash |-> d, fold |-> f]
        ELSE [err |-> dashFolder.err, dash |-> dashFolder.dash, fold |-> f]

Update(d, f, nid, cmd, ac, fault) ==
    LET dashFolder == legacyUpdate(d, nid, cmd, ac, fault)
        foldr == StoreUpdate(f, cmd.uid, cmd.newTitle, NoChange, fault)
    IN  IF ~cmd.signedIn THEN [err |-> ErrBadRequest, dash |-> d, fold |-> f]
        ELSE IF dashFolder.err # Nil
        THEN [err |-> dashFolder.err, dash |-> dashFolder.dash, fold |-> f]
        ELSE IF foldr.err = ErrNestedNotFound
        THEN [err |-> Nil, dash |-> dashFolder.dash, fold |-> f,
              val |-> FolderOf(dashFolder.dash, cmd.uid)]
        ELSE IF foldr.err # Nil
        THEN [err |-> foldr.err, dash |-> dashFolder.dash, fold |-> foldr.fold]
        ELSE [err |-> Nil, dash |-> dashFolder.dash, fold |-> foldr.fold,
              val |-> [StoreFolder(foldr.fold, cmd.uid) EXCEPT
                           !.id = dashFolder.dash[cmd.uid].id,
                           !.version = dashFolder.dash[cmd.uid].version]]

\* the checks of Move without the check of the caller's permission on the destination
MoveCheckUnguarded(f, cmd, ac, fault) ==
    LET folderHeight == StoreGetHeight(f, cmd.uid, cmd.newParentUID, fault)
        parents == StoreGetParents(f, cmd.newParentUID, fault)
    IN  IF ~cmd.signedIn THEN ErrBadRequest
        ELSE IF folderHeight.err # Nil THEN folderHeight.err
        ELSE IF parents.err # Nil THEN parents.err
        ELSE IF folderHeight.val + Len(parents.val) + 2 > MaxNestedFolderDepth
        THEN ErrMaximumDepthReached
        ELSE IF cmd.uid \in Range(parents.val) THEN ErrCircularReference
        ELSE Nil

\* the checks of Move that go on when the height query returns an error
MoveCheckHeightUnread(f, cmd, ac, fault) ==
    LET hasAccess == IF cmd.newParentUID # NoUID
                     THEN Evaluate(ac, "folders:write", cmd.newParentUID, fault)
                     ELSE Evaluate(ac, "folders:create", NoUID, fault)
        folderHeight == StoreGetHeight(f, cmd.uid, cmd.newParentUID, fault)
        parents == StoreGetParents(f, cmd.newParentUID, fault)
    IN  IF ~cmd.signedIn THEN ErrBadRequest
        ELSE IF hasAccess.err # Nil THEN hasAccess.err
        ELSE IF ~hasAccess.val THEN ErrFolderAccessDenied
        ELSE IF parents.err # Nil THEN parents.err
        ELSE IF folderHeight.val + Len(parents.val) + 2 > MaxNestedFolderDepth
        THEN ErrMaximumDepthReached
        ELSE IF cmd.uid \in Range(parents.val) THEN ErrCircularReference
        ELSE Nil

\* the checks of Move without the test of the depth
MoveCheckNoDepth(f, cmd, ac, fault) ==
    LET hasAccess == IF cmd.newParentUID # NoUID
                     THEN Evaluate(ac, "folders:write", cmd.newParentUID, fault)
                     ELSE Evaluate(ac, "folders:create", NoUID, fault)
        folderHeight == StoreGetHeight(f, cmd.uid, cmd.newParentUID, fault)
        parents == StoreGetParents(f, cmd.newParentUID, fault)
    IN  IF ~cmd.signedIn THEN ErrBadRequest
        ELSE IF hasAccess.err # Nil THEN hasAccess.err
        ELSE IF ~hasAccess.val THEN ErrFolderAccessDenied
        ELSE IF folderHeight.err # Nil THEN folderHeight.err
        ELSE IF parents.err # Nil THEN parents.err
        ELSE IF cmd.uid \in Range(parents.val) THEN ErrCircularReference
        ELSE Nil

\* the checks of Move with the height asked for without naming the destination
MoveCheckHeightAnywhere(f, cmd, ac, fault) ==
    LET hasAccess == IF cmd.newParentUID # NoUID
                     THEN Evaluate(ac, "folders:write", cmd.newParentUID, fault)
                     ELSE Evaluate(ac, "folders:create", NoUID, fault)
        folderHeight == StoreGetHeight(f, cmd.uid, NoUID, fault)
        parents == StoreGetParents(f, cmd.newParentUID, fault)
    IN  IF ~cmd.signedIn THEN ErrBadRequest
        ELSE IF hasAccess.err # Nil THEN hasAccess.err
        ELSE IF ~hasAccess.val THEN ErrFolderAccessDenied
        ELSE IF folderHeight.err # Nil THEN folderHeight.err
        ELSE IF parents.err # Nil THEN parents.err
        ELSE IF folderHeight.val + Len(parents.val) + 2 > MaxNestedFolderDepth
        THEN ErrMaximumDepthReached
        ELSE IF cmd.uid \in Range(parents.val) THEN ErrCircularReference
        ELSE Nil

\* the checks of Move that precede its transaction; cmd is [uid, newParentUID, signedIn]
MoveCheck(f, cmd, ac, fault) ==
    LET hasAccess == IF cmd.newParentUID # NoUID
                     THEN Evaluate(ac, "folders:write", cmd.newParentUID, fault)
                     ELSE Evaluate(ac, "folders:create", NoUID, fault)
        folderHeight == StoreGetHeight(f, cmd.uid, cmd.newParentUID, fault)
        parents == StoreGetParents(f, cmd.newParentUID, fault)
    IN  IF ~cmd.signedIn THEN ErrBadRequest
        ELSE IF hasAccess.err # Nil THEN hasAccess.err
        ELSE IF ~hasAccess.val THEN ErrFolderAccessDenied
        ELSE IF folderHeight.err # Nil THEN folderHeight.err
        ELSE IF parents.err # Nil THEN parents.err
        ELSE IF folderHeight.val + Len(parents.val) + 2 > MaxNestedFolderDepth
        THEN ErrMaximumDepthReached
        ELSE IF cmd.uid \in Range(parents.val) THEN ErrCircularReference
        ELSE Nil

\* the function Move runs inside its transaction
\* the writes of Move that re-save the legacy row and leave the nested row alone
MoveWritesLegacyOnly(d, f, nid, cmd, ac, fault) ==
    LET legacy == legacyUpdate(d, nid,
                      [uid |-> cmd.uid, newTitle |-> Nil,
                       newParentUID |-> cmd.newParentUID, version |-> 0,
                       overwrite |-> TRUE, signedIn |-> cmd.signedIn],
                      ac, fault)
    IN  IF legacy.err # Nil THEN [err |-> ErrInternal, dash |-> legacy.dash, fold |-> f]
        ELSE [err |-> Nil, dash |-> legacy.dash, fold |-> f, val |-> StoreFolder(f, cmd.uid)]

MoveWrites(d, f, nid, cmd, ac, fault) ==
    LET upd == StoreUpdate(f, cmd.uid, Nil, cmd.newParentUID, fault)
        legacy == legacyUpdate(d, nid,
                      [uid |-> cmd.uid, newTitle |-> Nil,
                       newParentUID |-> cmd.newParentUID, version |-> 0,
                       overwrite |-> TRUE, signedIn |-> cmd.signedIn],
                      ac, fault)
    IN  IF upd.err # Nil THEN [err |-> ErrInternal, dash |-> d, fold |-> upd.fold]
        ELSE IF legacy.err # Nil
        THEN [err |-> ErrInternal, dash |-> legacy.dash, fold |-> upd.fold]
        ELSE [err |-> Nil, dash |-> legacy.dash, fold |-> upd.fold,
              val |-> StoreFolder(upd.fold, cmd.uid)]

\* the writes of Move made one after the other with nothing to undo them
MoveWithoutTransaction(d, f, nid, cmd, ac, fault) == MoveWrites(d, f, nid, cmd, ac, fault)

MoveTransaction(d, f, nid, cmd, ac, fault) ==
    InTransaction([dash |-> d, fold |-> f], MoveWrites(d, f, nid, cmd, ac, fault))

Move(d, f, nid, cmd, ac, fault) ==
    LET rejected == MoveCheck(f, cmd, ac, fault)
    IN  IF rejected # Nil THEN [err |-> rejected, dash |-> d, fold |-> f]
        ELSE MoveTransaction(d, f, nid, cmd, ac, fault)

\* the registered handlers deleting their entries in folder uid
deleteChildrenInFolder(uid, fault) ==
    IF Fails(fault, "DeleteInFolder", uid) THEN ErrStore ELSE Nil

legacyDelete(d, dashFolder, uid, fault) ==
    LET del == DeleteDashboard(d, dashFolder.id, uid, fault)
    IN  [err |-> toFolderError(del.err), dash |-> del.dash]

\* a nested delete of the folder alone, its subfolders left where they are
nestedFolderDeleteAlone(d, f, cmd, ac, fault, flag, fuel) ==
    LET got == Get(d, f, ByUID(cmd.uid, cmd.signedIn), ac, fault, flag)
        del == StoreDelete(f, cmd.uid, fault)
    IN  IF ~cmd.signedIn THEN [err |-> ErrBadRequest, result |-> <<>>, fold |-> f]
        ELSE IF got.err # Nil THEN [err |-> got.err, result |-> <<>>, fold |-> f]
        ELSE [err |-> del.err, result |-> <<>>, fold |-> del.fold]

\* a nested delete that does not read the folder before deleting it
nestedFolderDeleteUnread(d, f, cmd, ac, fault, flag, fuel) ==
    LET del == StoreDelete(f, cmd.uid, fault)
    IN  IF ~cmd.signedIn THEN [err |-> ErrBadRequest, result |-> <<>>, fold |-> f]
        ELSE [err |-> del.err, result |-> <<>>, fold |-> del.fold]

RECURSIVE nestedFolderDelete(_, _, _, _, _, _, _)
RECURSIVE deleteSubfolders(_, _, _, _, _, _, _, _)

\* a nested delete that descends without reading the folders it comes to
nestedFolderDeleteUnviewed(d, f, cmd, ac, fault, flag, fuel) ==
    LET folders == StoreGetChildren(f, cmd.uid, fault)
        subs == deleteSubfolders(d, f, folders.val, cmd, ac, fault, flag, fuel)
        del == StoreDelete(subs.fold, cmd.uid, fault)
    IN  IF fuel = 0 THEN [err |-> ErrStackExhausted, result |-> <<>>, fold |-> f]
        ELSE IF ~cmd.signedIn THEN [err |-> ErrBadRequest, result |-> <<>>, fold |-> f]
        ELSE IF folders.err # Nil THEN [err |-> folders.err, result |-> <<>>, fold |-> f]
        ELSE IF subs.err # Nil THEN subs
        ELSE [err |-> del.err, result |-> subs.result, fold |-> del.fold]

\* cmd is [uid, forceDeleteRules, signedIn]; fuel is the stack left to the recursion.
\* Returns the UIDs of the descendants and the nested store without them and cmd.uid.
nestedFolderDelete(d, f, cmd, ac, fault, flag, fuel) ==
    LET got == Get(d, f, ByUID(cmd.uid, cmd.signedIn), ac, fault, flag)
        folders == StoreGetChildren(f, cmd.uid, fault)
        subs == deleteSubfolders(d, f, folders.val, cmd, ac, fault, flag, fuel)
        del == StoreDelete(subs.fold, cmd.uid, fault)
    IN  IF fuel = 0 THEN [err |-> ErrStackExhausted, result |-> <<>>, fold |-> f]
        ELSE IF ~cmd.signedIn THEN [err |-> ErrBadRequest, result |-> <<>>, fold |-> f]
        ELSE IF got.err # Nil THEN [err |-> got.err, result |-> <<>>, fold |-> f]
        ELSE IF folders.err # Nil THEN [err |-> folders.err, result |-> <<>>, fold |-> f]
        ELSE IF subs.err # Nil THEN subs
        ELSE [err |-> del.err, result |-> subs.result, fold |-> del.fold]

\* the loop of nestedFolderDelete over the children it read
deleteSubfolders(d, f, folders, cmd, ac, fault, flag, fuel) ==
    IF folders = <<>> THEN [err |-> Nil, result |-> <<>>, fold |-> f]
    ELSE LET uid == Head(folders)
             first == nestedFolderDelete(d, f, [cmd EXCEPT !.uid = uid], ac, fault, flag,
                                         fuel - 1)
             rest == deleteSubfolders(d, first.fold, Tail(folders), cmd, ac, fault, flag,
                                      fuel)
         IN  IF first.err # Nil
             THEN [err |-> first.err, result |-> <<uid>> \o first.result, fold |-> first.fold]
             ELSE [err |-> rest.err, result |-> <<uid>> \o first.result \o rest.result,
                   fold |-> rest.fold]

RECURSIVE deleteLegacyRows(_, _, _, _, _)
\* the loop of Delete deleting the legacy row of a folder before the handlers
\* are invoked for it
deleteLegacyRowsThenChildren(d, result, dashFolders, cmd, fault) ==
    IF result = <<>> THEN [err |-> Nil, dash |-> d, log |-> <<>>]
    ELSE LET uid == Head(result)
             called == IF cmd.forceDeleteRules THEN <<<<"DeleteInFolder", uid>>>> ELSE <<>>
             del == legacyDelete(d, dashFolders[uid], uid, fault)
             rest == deleteLegacyRows(del.dash, Tail(result), dashFolders, cmd, fault)
         IN  IF uid \notin DOMAIN dashFolders
             THEN [err |-> Nil, dash |-> d, log |-> <<>>]
             ELSE IF del.err # Nil
             THEN [err |-> del.err, dash |-> del.dash, log |-> <<<<"DeleteDashboard", uid>>>>]
             ELSE [err |-> rest.err, dash |-> rest.dash,
                   log |-> <<<<"DeleteDashboard", uid>>>> \o called \o rest.log]

\* the loop of Delete over the collected UIDs; log lists the calls it made
deleteLegacyRows(d, result, dashFolders, cmd, fault) ==
    IF result = <<>> THEN [err |-> Nil, dash |-> d, log |-> <<>>]
    ELSE LET uid == Head(result)
             handlers == IF cmd.forceDeleteRules
                         THEN deleteChildrenInFolder(uid, fault) ELSE Nil
             called == IF cmd.forceDeleteRules THEN <<<<"DeleteInFolder", uid>>>> ELSE <<>>
             del == legacyDelete(d, dashFolders[uid], uid, fault)
             rest == deleteLegacyRows(del.dash, Tail(result), dashFolders, cmd, fault)
         IN  IF uid \notin DOMAIN dashFolders
             THEN [err |-> Nil, dash |-> d, log |-> <<>>]
             ELSE IF handlers # Nil THEN [err |-> handlers, dash |-> d, log |-> called]
             ELSE IF del.err # Nil
             THEN [err |-> del.err, dash |-> del.dash,
                   log |-> called \o <<<<"DeleteDashboard", uid>>>>]
             ELSE [err |-> rest.err, dash |-> rest.dash,
                   log |-> called \o <<<<"DeleteDashboard", uid>>>> \o rest.log]

\* the function Delete runs inside its transaction
DeleteWrites(d, f, cmd, ac, fault, flag) ==
    LET sub == nestedFolderDelete(d, f, cmd, ac, fault, flag, Cardinality(DOMAIN f) + 1)
        result == <<cmd.uid>> \o sub.result
        dashFolders == GetFolders(d, Range(result), fault)
        legacy == deleteLegacyRows(d, result, dashFolders.val, cmd, fault)
    IN  IF sub.err # Nil
        THEN [err |-> sub.err, dash |-> d, fold |-> sub.fold, log |-> <<>>]
        ELSE IF dashFolders.err # Nil
        THEN [err |-> ErrInternal, dash |-> d, fold |-> sub.fold, log |-> <<>>]
        ELSE [err |-> legacy.err, dash |-> legacy.dash, fold |-> sub.fold,
              log |-> legacy.log]

\* Delete running its cascade with nothing to undo it
DeleteWithoutTransaction(d, f, cmd, ac, fault, flag) ==
    LET canDelete == GuardianCan(ac, "folders:delete", cmd.uid, fault)
        none == [dash |-> d, fold |-> f, log |-> <<>>]
    IN  IF ~cmd.signedIn \/ cmd.uid = NoUID THEN [err |-> ErrBadRequest] @@ none
        ELSE IF canDelete.err # Nil THEN [err |-> toFolderError(canDelete.err)] @@ none
        ELSE IF ~canDelete.val THEN [err |-> ErrFolderAccessDenied] @@ none
        ELSE DeleteWrites(d, f, cmd, ac, fault, flag)

\* Delete without the check of the caller's permission to delete the folder
DeleteUnguarded(d, f, cmd, ac, fault, flag) ==
    LET none == [dash |-> d, fold |-> f, log |-> <<>>]
    IN  IF ~cmd.signedIn \/ cmd.uid = NoUID THEN [err |-> ErrBadRequest] @@ none
        ELSE InTransaction([dash |-> d, fold |-> f],
                           DeleteWrites(d, f, cmd, ac, fault, flag))

Delete(d, f, cmd, ac, fault, flag) ==
    LET canDelete == GuardianCan(ac, "folders:delete", cmd.uid, fault)
        none == [dash |-> d, fold |-> f, log |-> <<>>]
    IN  IF ~cmd.signedIn \/ cmd.uid = NoUID THEN [err |-> ErrBadRequest] @@ none
        ELSE IF canDelete.err # Nil THEN [err |-> toFolderError(canDelete.err)] @@ none
        ELSE IF ~canDelete.val THEN [err |-> ErrFolderAccessDenied] @@ none
        ELSE InTransaction([dash |-> d, fold |-> f],
                           DeleteWrites(d, f, cmd, ac, fault, flag))

----------------------------------------------------------------------------
(* The tree the nested store holds, read off its parent pointers *)

RECURSIVE ReachFrom(_, _, _)
ReachFrom(f, frontier, seen) ==
    LET next == UNION {ChildrenOf(f, u) : u \in frontier} \ seen
    IN  IF next = {} THEN seen ELSE ReachFrom(f, next, seen \cup next)

\* the folders below u: its children, their children, and so on
Descendants(f, u) == ReachFrom(f, {u}, {})

\* the folders on the chain from u up to the root, u included
ChainToRoot(f, u) == {u} \cup Range(ParentChain(f, u, Cardinality(DOMAIN f)))

RECURSIVE LevelsBelow(_, _, _, _)
LevelsBelow(f, level, seen, n) ==
    LET next == UNION {ChildrenOf(f, u) : u \in level} \ seen
    IN  IF next = {} THEN n ELSE LevelsBelow(f, next, seen \cup next, n + 1)

\* the number of folders on the longest chain from u down to a leaf, u excluded
SubtreeHeight(f, u) == LevelsBelow(f, {u}, {u}, 0)

\* the number of folders above u, u excluded
AncestorCount(f, u) == Len(ParentChain(f, u, Cardinality(DOMAIN f)))

\* the subtree of u, put under dest, would reach below the maximum depth
ExceedsDepth(f, u, dest) ==
    SubtreeHeight(f, u) + AncestorCount(f, dest) + 2 > MaxNestedFolderDepth

\* a folder is its own ancestor
OnCycle(f, u) == u \in Descendants(f, u)

----------------------------------------------------------------------------
(* Requests: the commands, principals and faults a call is made with *)

\* the title a request gives folder u, so that siblings differ in title
TitleOf(u) == <<"a", "b", "c", "d", "e", "f", "g", "h", "i", "j", "k", "l">>[u]

CreateCommands(U, P) ==
    {cmd \in [uid : U, title : {"a", "b", "c", "d", "e", "f", "g", "h", "i", "j", "k", "l"},
              parentUID : P, signedIn : BOOLEAN] : cmd.title = TitleOf(cmd.uid)}

MoveCommands(U) == [uid : U, newParentUID : U \cup {NoUID}, signedIn : BOOLEAN]

DeleteCommands(U) == [uid : U \cup {NoUID}, forceDeleteRules : BOOLEAN, signedIn : BOOLEAN]

UpdateCommands(U) ==
    {cmd \in [uid : U, newTitle : {Nil, "a", "b", "c"}, newParentUID : {NoChange},
              version : 1..(MaxSaves + 1), overwrite : BOOLEAN, signedIn : BOOLEAN] :
        /\ cmd.newTitle \in {Nil, TitleOf(cmd.uid)}
        /\ cmd.overwrite => cmd.version = 1}

Fault(site, uid) == [site |-> site, uid |-> uid]

Lacking(action, uid) == {<<action, uid>>}

\* The principals and faults that bear on a command: the permissions the call
\* asks for and the collaborator calls it makes.  Any other principal acts as
\* the administrator and any other fault as none.
CreatePrincipals(cmd) ==
    {Admin, Lacking("folders:create", NoUID)} \cup
    {Lacking("folders:write", cmd.parentUID) : x \in {cmd.parentUID} \ {NoUID}}

CreateFaults(cmd) ==
    {NoFault, Fault("Evaluate", cmd.parentUID), Fault("guardian", NoUID)} \cup
    {Fault(site, cmd.uid) : site \in {"ValidateDashboardBeforeSave", "SaveDashboard",
                                      "GetFolderByID", "store.Create", "DeleteDashboard"}} \cup
    {Fault("store.GetParents", cmd.parentUID)}

MovePrincipals(cmd) ==
    {Admin, Lacking("folders:write", cmd.uid),
     IF cmd.newParentUID = NoUID THEN Lacking("folders:create", NoUID)
     ELSE Lacking("folders:write", cmd.newParentUID)}

MoveFaults(cmd) ==
    {NoFault, Fault("Evaluate", cmd.newParentUID),
     Fault("store.GetParents", cmd.newParentUID)} \cup
    {Fault(site, cmd.uid) : site \in {"store.GetHeight", "store.Update", "GetDashboard",
                                      "ValidateDashboardBeforeSave", "guardian",
                                      "SaveDashboard", "GetFolderByID"}}

UpdatePrincipals(cmd) == {Admin, Lacking("folders:write", cmd.uid)}

UpdateFaults(cmd) ==
    {NoFault} \cup
    {Fault(site, cmd.uid) : site \in {"GetDashboard", "ValidateDashboardBeforeSave",
                                      "guardian", "SaveDashboard", "GetFolderByID",
                                      "store.Update"}}

\* the folders a Delete of cmd.uid can come to touch
DeleteReach(f, cmd) == {cmd.uid} \cup Descendants(f, cmd.uid)

DeletePrincipals(f, cmd) ==
    {Admin, Lacking("folders:delete", cmd.uid)} \cup
    {Lacking("folders:read", u) : u \in DeleteReach(f, cmd)}

DeleteFaults(f, cmd) ==
    {NoFault, Fault("GetFolders", NoUID)} \cup
    {Fault(site, u) : site \in {"guardian", "GetFolderByUID", "store.Get",
                                "store.GetChildren", "store.Delete", "DeleteInFolder",
                                "DeleteDashboard"},
                      u \in DeleteReach(f, cmd)}

\* The ways a call is made: by the administrator meeting any one fault, or by
\* any principal meeting none; a request without a signed-in user is made plainly.
Conditions(principals, faults, signedIn) ==
    {c \in [ac : principals, fault : faults] :
        /\ c.ac = Admin \/ c.fault = NoFault
        /\ signedIn \/ (c.ac = Admin /\ c.fault = NoFault)}

CreateConditions(cmd) == Conditions(CreatePrincipals(cmd), CreateFaults(cmd), cmd.signedIn)
MoveConditions(cmd) == Conditions(MovePrincipals(cmd), MoveFaults(cmd), cmd.signedIn)
UpdateConditions(cmd) == Conditions(UpdatePrincipals(cmd), UpdateFaults(cmd), cmd.signedIn)
DeleteConditions(f, cmd) ==
    Conditions(DeletePrincipals(f, cmd), DeleteFaults(f, cmd), cmd.signedIn)

\* a call by the administrator that meets no fault
Plain == [ac |-> Admin, fault |-> NoFault]

----------------------------------------------------------------------------
(* What is recorded of a completed call: the operation, the case of the    *)
(* request with respect to the stores it met, and the error returned.      *)

Done(op, case, err) == [op |-> op, case |-> case, err |-> err]

\* where the destination of a Move lies with respect to the folder moved,
\* and whether the subtree would reach below the maximum depth there
MoveCase(d, f, cmd) ==
    [rows |-> Cardinality({x \in {"legacy"} : cmd.uid \in DOMAIN d})
              + Cardinality({x \in {"nested"} : cmd.uid \in DOMAIN f}),
     dest |-> CASE cmd.newParentUID = NoUID -> "root"
                [] cmd.newParentUID = cmd.uid -> "itself"
                [] cmd.newParentUID \in ChildrenOf(f, cmd.uid) -> "child"
                [] cmd.newParentUID \in Descendants(f, cmd.uid) -> "deeper"
                [] cmd.newParentUID \notin DOMAIN f -> "missing"
                [] OTHER -> "elsewhere",
     deep |-> ExceedsDepth(f, cmd.uid, cmd.newParentUID)]

\* whether the target of a Delete had a row, and how many folders lay below it
DeleteCase(d, f, cmd) ==
    [rows |-> Cardinality({x \in {"legacy"} : cmd.uid \in DOMAIN d})
              + Cardinality({x \in {"nested"} : cmd.uid \in DOMAIN f}),
     below |-> Cardinality(Descendants(f, cmd.uid))]

\* whether the UID of a Create was taken and whether its parent existed
CreateCase(d, f, cmd) ==
    [taken |-> cmd.uid \in DOMAIN d \cup DOMAIN f,
     parent |-> CASE cmd.parentUID = NoUID -> "root"
                  [] cmd.parentUID \in DOMAIN f -> "exists"
                  [] OTHER -> "missing"]

UpdateCase(d, f, cmd) ==
    [rows |-> Cardinality({x \in {"legacy"} : cmd.uid \in DOMAIN d})
              + Cardinality({x \in {"nested"} : cmd.uid \in DOMAIN f})]

----------------------------------------------------------------------------
(* The calls of the service, each atomic *)

CreateCall(cmd, c) ==
    LET o == Create(dash, fold, nextID, cmd, c.ac, c.fault, nested)
    IN  /\ dash' = o.dash
        /\ fold' = o.fold
        /\ nextID' = o.nextID
        /\ returned' = Done("Create", CreateCase(dash, fold, cmd), o.err)
        /\ UNCHANGED <<nested, inflight, registry, mutex>>

MoveCall(cmd, c) ==
    LET o == Move(dash, fold, nextID, cmd, c.ac, c.fault)
    IN  /\ dash' = o.dash
        /\ fold' = o.fold
        /\ returned' = Done("Move", MoveCase(dash, fold, cmd), o.err)
        /\ UNCHANGED <<nextID, nested, inflight, registry, mutex>>

UpdateCall(cmd, c) ==
    LET o == Update(dash, fold, nextID, cmd, c.ac, c.fault)
    IN  /\ dash' = o.dash
        /\ fold' = o.fold
        /\ returned' = Done("Update", UpdateCase(dash, fold, cmd), o.err)
        /\ UNCHANGED <<nextID, nested, inflight, registry, mutex>>

DeleteCall(cmd, c) ==
    LET o == Delete(dash, fold, cmd, c.ac, c.fault, nested)
    IN  /\ dash' = o.dash
        /\ fold' = o.fold
        /\ returned' = Done("Delete", DeleteCase(dash, fold, cmd), o.err)
        /\ UNCHANGED <<nextID, nested, inflight, registry, mutex>>

RECURSIVE SumOf(_, _)
SumOf(d, S) ==
    IF S = {} THEN 0
    ELSE LET u == CHOOSE x \in S : TRUE IN d[u].version - 1 + SumOf(d, S \ {u})

\* the legacy rows have been saved again fewer than MaxSaves times
SavesLeft == SumOf(dash, DOMAIN dash) < MaxSaves

\* the UIDs a client creates folders with: the first unused one, or the first of all
NewUIDs(U) ==
    LET unused == U \ (DOMAIN dash \cup DOMAIN fold)
    IN  {1} \cup {u \in unused : \A v \in unused : u <= v}

Init ==
    /\ dash = << >>
    /\ fold = << >>
    /\ nextID = 1
    /\ nested \in BOOLEAN
    /\ returned = Done("none", "none", Nil)
    /\ inflight = {}
    /\ registry = {}
    /\ mutex = "free"

----------------------------------------------------------------------------
(* Spec: the four writing calls on a few folders.  Create and Update, which *)
(* run outside a transaction, meet every condition; Move and Delete are     *)
(* made plainly here and meet every condition in SpecDeep and SpecDel.      *)

SpecCreate ==
    /\ nextID <= MaxID
    /\ \E cmd \in CreateCommands(NewUIDs(UIDs), UIDs \cup {NoUID}) :
           \E c \in CreateConditions(cmd) : CreateCall(cmd, c)

SpecMove ==
    /\ SavesLeft
    /\ \E cmd \in MoveCommands(UIDs) : MoveCall(cmd, Plain)

SpecUpdate ==
    /\ SavesLeft
    /\ \E cmd \in UpdateCommands(UIDs) : \E c \in UpdateConditions(cmd) :
           UpdateCall(cmd, c)

SpecDelete ==
    \E cmd \in DeleteCommands(UIDs) : DeleteCall(cmd, Plain)

Next == SpecCreate \/ SpecMove \/ SpecUpdate \/ SpecDelete

Spec == Init /\ [][Next]_vars

----------------------------------------------------------------------------
(* SpecDel: folders are created plainly and deleted under every condition *)

DelCreate ==
    /\ nextID <= MaxID
    /\ \E cmd \in CreateCommands(NewUIDs(TreeUIDs), TreeUIDs \cup {NoUID}) :
           cmd.signedIn /\ CreateCall(cmd, Plain)

DelDelete ==
    \E cmd \in DeleteCommands(TreeUIDs) : \E c \in DeleteConditions(fold, cmd) :
        DeleteCall(cmd, c)

NextDel == DelCreate \/ DelDelete

SpecDel == Init /\ [][NextDel]_vars

----------------------------------------------------------------------------
(* SpecDeep: chains of folders deep enough to meet the maximum depth, built *)
(* by Create under the folder created last or at the root, and one Move     *)
(* under every condition its checks can meet.                                *)

\* the folder created last, or the root when there is none
LastCreated == IF DOMAIN fold = {} THEN NoUID
               ELSE CHOOSE u \in DOMAIN fold : \A v \in DOMAIN fold : v <= u

Roots(f) == {u \in DOMAIN f : f[u].parentUID = NoUID}

InitNestedOn ==
    /\ dash = << >>
    /\ fold = << >>
    /\ nextID = 1
    /\ nested = TRUE
    /\ returned = Done("none", "none", Nil)
    /\ inflight = {}
    /\ registry = {}
    /\ mutex = "free"

DeepCreate ==
    \E cmd \in CreateCommands(NewUIDs(DeepUIDs) \ DOMAIN fold, {NoUID, LastCreated}) :
        /\ cmd.signedIn
        /\ cmd.parentUID = NoUID => Cardinality(Roots(fold)) < MaxRoots
        /\ CreateCall(cmd, Plain)

\* the conditions that bear on the checks Move makes before its transaction
MoveCheckConditions(cmd) ==
    {c \in MoveConditions(cmd) :
        c.fault.site \in {"none", "Evaluate", "store.GetHeight", "store.GetParents"}}

DeepMove ==
    /\ SavesLeft
    /\ \E cmd \in MoveCommands(DOMAIN fold) :
           /\ cmd.signedIn
           /\ \E c \in MoveCheckConditions(cmd) : MoveCall(cmd, c)

NextDeep == DeepCreate \/ DeepMove

SpecDeep == InitNestedOn /\ [][NextDeep]_vars

----------------------------------------------------------------------------
(* SpecMv: folders are created plainly and moved under every condition *)

MvCreate ==
    /\ nextID <= MaxID
    /\ \E cmd \in CreateCommands(NewUIDs(TreeUIDs), TreeUIDs \cup {NoUID}) :
           cmd.signedIn /\ CreateCall(cmd, Plain)

MvMove ==
    /\ SavesLeft
    /\ \E cmd \in MoveCommands(TreeUIDs) : \E c \in MoveConditions(cmd) : MoveCall(cmd, c)

NextMv == MvCreate \/ MvMove

SpecMv == Init /\ [][NextMv]_vars

----------------------------------------------------------------------------
(* SpecConc: calls made in parallel.  Create and Move read the tree, then    *)
(* write; between the two another call may run.  Delete runs in one          *)
(* transaction.  All calls are made plainly.                                  *)

Pending(op, cmd, id) == [op |-> op, cmd |-> cmd, id |-> id]

\* Create up to the validation of the parent: the legacy row is written
ConcCreateBegin ==
    \E cmd \in CreateCommands(NewUIDs(TreeUIDs), TreeUIDs \cup {NoUID}) :
        LET legacy == CreateLegacy(dash, nextID, cmd, Admin, NoFault, nested)
            bad == IF cmd.parentUID # NoUID
                   THEN validateParent(fold, cmd.parentUID, cmd.uid, NoFault)
                   ELSE Nil
        IN  /\ nextID <= MaxID
            /\ Cardinality(inflight) < MaxInflight
            /\ cmd.signedIn
            /\ legacy.err = Nil
            /\ bad = Nil
            /\ dash' = legacy.dash
            /\ nextID' = legacy.nextID
            /\ inflight' = inflight \cup {Pending("Create", cmd, legacy.id)}
            /\ UNCHANGED <<fold, nested, returned, registry, mutex>>

\* Create from the write of the nested row on
ConcCreateEnd ==
    \E r \in inflight :
        LET o == CreateStore(dash, fold, r.id, r.cmd, NoFault)
        IN  /\ r.op = "Create"
            /\ dash' = o.dash
            /\ fold' = o.fold
            /\ inflight' = inflight \ {r}
            /\ returned' = Done("Create", CreateCase(dash, fold, r.cmd), o.err)
            /\ UNCHANGED <<nextID, nested, registry, mutex>>

\* Move up to the end of its checks
ConcMoveBegin ==
    \E cmd \in MoveCommands(TreeUIDs) :
        /\ SavesLeft
        /\ Cardinality(inflight) < MaxInflight
        /\ cmd.signedIn
        /\ MoveCheck(fold, cmd, Admin, NoFault) = Nil
        /\ inflight' = inflight \cup {Pending("Move", cmd, 0)}
        /\ UNCHANGED <<dash, fold, nextID, nested, returned, registry, mutex>>

\* the transaction of Move
ConcMoveEnd ==
    \E r \in inflight :
        LET o == MoveTransaction(dash, fold, nextID, r.cmd, Admin, NoFault)
        IN  /\ r.op = "Move"
            /\ dash' = o.dash
            /\ fold' = o.fold
            /\ inflight' = inflight \ {r}
            /\ returned' = Done("Move", MoveCase(dash, fold, r.cmd), o.err)
            /\ UNCHANGED <<nextID, nested, registry, mutex>>

ConcDelete ==
    \E cmd \in DeleteCommands(TreeUIDs) :
        /\ cmd.signedIn
        /\ ~cmd.forceDeleteRules
        /\ LET o == Delete(dash, fold, cmd, Admin, NoFault, nested)
           IN  /\ dash' = o.dash
               /\ fold' = o.fold
               /\ returned' = Done("Delete", DeleteCase(dash, fold, cmd), o.err)
               /\ UNCHANGED <<nextID, nested, inflight, registry, mutex>>

NextConc ==
    ConcCreateBegin \/ ConcCreateEnd \/ ConcMoveBegin \/ ConcMoveEnd \/ ConcDelete

SpecConc == InitNestedOn /\ [][NextConc]_vars

----------------------------------------------------------------------------
(* SpecMoves: folders are created one call at a time and moved by calls made *)
(* in parallel.                                                              *)

MovesCreate ==
    /\ nextID <= MaxID
    /\ inflight = {}
    /\ \E cmd \in CreateCommands(NewUIDs(TreeUIDs), TreeUIDs \cup {NoUID}) :
           cmd.signedIn /\ CreateCall(cmd, Plain)

NextMoves == MovesCreate \/ ConcMoveBegin \/ ConcMoveEnd

SpecMoves == Init /\ [][NextMoves]_vars

----------------------------------------------------------------------------
(* Properties of Move and Create on deep trees, checked under SpecDeep *)

\* the call passes the permission check of Move on its destination and meets no fault
MoveChecked(cmd, c) ==
    /\ cmd.signedIn
    /\ c.fault = NoFault
    /\ IF cmd.newParentUID = NoUID THEN HasAccess(c.ac, "folders:create", NoUID)
       ELSE HasAccess(c.ac, "folders:write", cmd.newParentUID)

MoveUnchanged(o) == o.err # Nil /\ o.dash = dash /\ o.fold = fold

C3_ChainsWithinDepth ==
    \A u \in DOMAIN fold : Cardinality(ChainToRoot(fold, u)) <= MaxNestedFolderDepth

----------------------------------------------------------------------------
(* Properties of Delete, checked under SpecDel *)

\* the folder of a Delete and the folders below it in the nested store
DeleteTargets(cmd) == {cmd.uid} \cup Descendants(fold, cmd.uid)

DeleteChecked(cmd, c) ==
    /\ cmd.signedIn
    /\ c.fault = NoFault
    /\ HasAccess(c.ac, "folders:delete", cmd.uid)
    /\ HasAccess(c.ac, "folders:read", cmd.uid)

\* C7: a Delete of a UID that has no row in either store, deleted before or
\* never created, never succeeds and changes neither store under any principal
\* or fault; made by a principal who may delete and read the UID and meeting no
\* fault, it returns NotFound.
C7_DeleteMissing ==
    \A cmd \in DeleteCommands(TreeUIDs) :
        (cmd.uid # NoUID /\ cmd.uid \notin DOMAIN dash \cup DOMAIN fold) =>
            \A c \in DeleteConditions(fold, cmd) :
                LET o == Delete(dash, fold, cmd, c.ac, c.fault, nested)
                IN  /\ o.err # Nil
                    /\ o.dash = dash
                    /\ o.fold = fold
                    /\ DeleteChecked(cmd, c) => IsNotFound(o.err)

\* a Delete of a UID without rows has returned NotFound after a folder was
\* created and deleted
C7_Witness ==
    /\ returned.op = "Delete"
    /\ returned.case.rows = 0
    /\ IsNotFound(returned.err)
    /\ nextID > 1
    /\ DOMAIN dash = {}

\* C8: a Delete that returns an error, at whatever step of the cascade and
\* under any principal or fault, has removed no row from either store.
C8_DeleteAtomic ==
    \A cmd \in DeleteCommands(TreeUIDs) : \A c \in DeleteConditions(fold, cmd) :
        LET o == Delete(dash, fold, cmd, c.ac, c.fault, nested)
        IN  o.err # Nil => o.dash = dash /\ o.fold = fold

\* a Delete of a folder with folders below it has failed inside its transaction,
\* after the nested rows were deleted, and every row created is still there
C8_Witness ==
    /\ returned.op = "Delete"
    /\ returned.case.rows = 2
    /\ returned.case.below >= 1
    /\ returned.err = ErrInternal
    /\ Cardinality(DOMAIN dash) = MaxID
    /\ Cardinality(DOMAIN fold) = MaxID

----------------------------------------------------------------------------
(* Property of Move, checked under SpecMv *)

\* C9: a Move that returns an error, under any principal or fault, leaves both
\* stores as they were, the parent of the folder included; a Move that succeeds
\* has recorded the new parent in both stores.
C9_MoveAtomic ==
    \A cmd \in MoveCommands(TreeUIDs) : \A c \in MoveConditions(cmd) :
        LET o == Move(dash, fold, nextID, cmd, c.ac, c.fault)
        IN  /\ o.err # Nil => o.dash = dash /\ o.fold = fold
            /\ o.err = Nil => /\ o.fold[cmd.uid].parentUID = cmd.newParentUID
                              /\ o.dash[cmd.uid].folderUID = cmd.newParentUID

\* a Move of a folder with rows in both stores has failed inside its transaction
C9_Witness ==
    /\ returned.op = "Move"
    /\ returned.case.rows = 2
    /\ returned.case.dest \in {"root", "elsewhere"}
    /\ returned.err = ErrInternal

----------------------------------------------------------------------------
(* Property of the two stores, checked under Spec *)

\* C10: after every completed Create, Update, Move or Delete, whatever it
\* returned and whatever fault it met, the two stores hold rows for the same UIDs.
C10_SameUIDs == DOMAIN dash = DOMAIN fold

----------------------------------------------------------------------------
(* Properties of the tree under calls made in parallel *)

\* C4 (checked under SpecMoves): under every interleaving of Move calls, each
\* making its checks and then its transactional write, no folder of the nested
\* store is its own ancestor.
C4_NoCycles == \A u \in DOMAIN fold : ~OnCycle(fold, u)

\* C5 (checked under SpecConc): under every interleaving of Create, Move and
\* Delete calls, each folder of the nested store with a parentUID has a row
\* for that parent in the store.
C5_ParentsExist ==
    \A u \in DOMAIN fold :
        fold[u].parentUID # NoUID => fold[u].parentUID \in DOMAIN fold

----------------------------------------------------------------------------
(* SpecCr: Create with any title, blank and padded ones included, under    *)
(* every condition, by principals that may or may not view the folder they *)
(* create; folders are deleted plainly.                                     *)

CrTitles == {"", " ", "a", " a", "b"}

CrCommands ==
    [uid : NewUIDs(UIDs), title : CrTitles, parentUID : UIDs \cup {NoUID}, signedIn : BOOLEAN]

CrConditions(cmd) ==
    Conditions(CreatePrincipals(cmd) \cup {Lacking("folders:read", cmd.uid)},
               CreateFaults(cmd), cmd.signedIn)

\* the case of a Create and the shape of its title
CrCase(d, f, cmd) ==
    [taken |-> CreateCase(d, f, cmd).taken,
     parent |-> CreateCase(d, f, cmd).parent,
     title |-> CASE TrimSpace(cmd.title) = "" -> "blank"
                 [] TrimSpace(cmd.title) # cmd.title -> "padded"
                 [] OTHER -> "plain"]

CrCreate ==
    /\ nextID <= MaxID
    /\ \E cmd \in CrCommands : \E c \in CrConditions(cmd) :
           LET o == Create(dash, fold, nextID, cmd, c.ac, c.fault, nested)
           IN  /\ dash' = o.dash
               /\ fold' = o.fold
               /\ nextID' = o.nextID
               /\ returned' = Done("Create", CrCase(dash, fold, cmd), o.err)
               /\ UNCHANGED <<nested, inflight, registry, mutex>>

CrDelete ==
    \E cmd \in DeleteCommands(UIDs) : cmd.signedIn /\ DeleteCall(cmd, Plain)

NextCr == CrCreate \/ CrDelete

SpecCr == Init /\ [][NextCr]_vars

----------------------------------------------------------------------------
(* Claims C11 to C20 *)

\* C11: when the legacy write of Create succeeds and the nested write fails,
\* Create returns the error of the nested write, the nested store is as it
\* was, and the legacy row just written is deleted again; when that delete
\* fails too, the error returned is still the one of the nested write.
C11_CreateRollsBack ==
    \A cmd \in CreateCommands(NewUIDs(UIDs), UIDs \cup {NoUID}) :
        \A c \in CreateConditions(cmd) :
            LET legacy == CreateLegacy(dash, nextID, cmd, c.ac, c.fault, nested)
                nestedFolder == nestedFolderCreate(fold, cmd, c.fault)
                o == Create(dash, fold, nextID, cmd, c.ac, c.fault, nested)
            IN  (legacy.err = Nil /\ nestedFolder.err # Nil) =>
                    /\ o.err = nestedFolder.err
                    /\ o.fold = fold
                    /\ cmd.uid \in DOMAIN legacy.dash
                    /\ ~Fails(c.fault, "DeleteDashboard", cmd.uid) =>
                           (cmd.uid \notin DOMAIN o.dash /\ o.dash = dash)

\* a Create under a parent the nested store does not have has returned the
\* error of the nested write and has left no legacy row behind
C11_Witness ==
    /\ returned.op = "Create"
    /\ returned.case.parent = "missing"
    /\ ~returned.case.taken
    /\ returned.err = ErrNestedNotFound
    /\ DOMAIN dash = DOMAIN fold

\* the folder Get returns by UID right after a Create, to the principal that created it
GetCreated(o, cmd, c) ==
    Get(o.dash, o.fold, ByUID(cmd.uid, TRUE), c.ac, NoFault, nested)

\* C12: after a successful Create, Get of the created folder by its UID, by
\* the same principal when it may view the folder, returns a folder; in
\* hierarchical mode its title and parentUID are those of the Create request,
\* in legacy mode its title is the trimmed title of the request and its
\* parentUID is empty.
C12_CreateThenGet ==
    \A cmd \in CrCommands : \A c \in CrConditions(cmd) :
        LET o == Create(dash, fold, nextID, cmd, c.ac, c.fault, nested)
            got == GetCreated(o, cmd, c)
        IN  (nextID <= MaxID /\ o.err = Nil /\ HasAccess(c.ac, "folders:read", cmd.uid)) =>
                /\ got.err = Nil
                /\ got.val.uid = cmd.uid
                /\ nested => (got.val.title = cmd.title /\ got.val.parentUID = cmd.parentUID)
                /\ ~nested => (got.val.title = TrimSpace(cmd.title)
                               /\ got.val.parentUID = NoUID)

\* a Create with a padded title under an existing parent has succeeded
C12_Witness ==
    /\ returned.op = "Create"
    /\ returned.case.title = "padded"
    /\ returned.case.parent = "exists"
    /\ returned.err = Nil

\* C12 as stated: after any successful Create, Get by the same principal
\* returns the title and the parentUID of the request
C12_AsStated ==
    \A cmd \in CrCommands : \A c \in CrConditions(cmd) :
        LET o == Create(dash, fold, nextID, cmd, c.ac, c.fault, nested)
            got == GetCreated(o, cmd, c)
        IN  (nextID <= MaxID /\ o.err = Nil) =>
                /\ got.err = Nil
                /\ got.val.title = cmd.title
                /\ got.val.parentUID = cmd.parentUID

\* the check of the parent that Create makes before it looks at the title passes
ParentCheckPasses(cmd, c) ==
    (nested /\ cmd.parentUID # NoUID) =>
        LET hasAccess == Evaluate(c.ac, "folders:write", cmd.parentUID, c.fault)
        IN  hasAccess.err = Nil /\ hasAccess.val

\* C14: a Create whose title is empty once trimmed fails and writes no row to
\* the legacy store and none to the nested store, whoever makes it and
\* whatever fails; the error is the folder title-empty error for a signed-in
\* caller that passes the check of the parent.
C14_CreateBlankTitle ==
    \A cmd \in CrCommands : \A c \in CrConditions(cmd) :
        LET o == Create(dash, fold, nextID, cmd, c.ac, c.fault, nested)
        IN  (nextID <= MaxID /\ TrimSpace(cmd.title) = "") =>
                /\ o.err # Nil
                /\ o.dash = dash
                /\ o.fold = fold
                /\ (cmd.signedIn /\ ParentCheckPasses(cmd, c)) => o.err = ErrFolderTitleEmpty

\* a Create with a blank title has returned the title-empty error
C14_Witness ==
    /\ returned.op = "Create"
    /\ returned.case.title = "blank"
    /\ returned.err = ErrFolderTitleEmpty
    /\ dash # << >>

----------------------------------------------------------------------------
(* SpecUp: folders are created plainly, or with the rollback of Create      *)
(* failing so that a legacy row stays without a nested one, and updated     *)
(* with new titles under every condition.                                   *)

UpCreate ==
    /\ nextID <= MaxID
    /\ \E cmd \in CreateCommands(NewUIDs(UIDs), UIDs \cup {NoUID}) :
           \E c \in {Plain, [ac |-> Admin, fault |-> Fault("DeleteDashboard", cmd.uid)]} :
               cmd.signedIn /\ CreateCall(cmd, c)

UpCommands ==
    {cmd \in [uid : UIDs, newTitle : {Nil, "", " a", "c"}, newParentUID : {NoChange},
              version : 1..(MaxSaves + 1), overwrite : BOOLEAN, signedIn : BOOLEAN] :
        cmd.overwrite => cmd.version = 1}

\* the rows the folder of an Update had and whether the request names a title
UpCase(d, f, cmd) ==
    [rows |-> UpdateCase(d, f, cmd).rows,
     legacy |-> cmd.uid \in DOMAIN d,
     title |-> CASE cmd.newTitle = Nil -> "none"
                 [] cmd.newTitle = "" -> "empty"
                 [] TrimSpace(cmd.newTitle) # cmd.newTitle -> "padded"
                 [] OTHER -> "plain"]

UpUpdate ==
    /\ SavesLeft
    /\ \E cmd \in UpCommands : \E c \in UpdateConditions(cmd) :
           LET o == Update(dash, fold, nextID, cmd, c.ac, c.fault)
           IN  /\ dash' = o.dash
               /\ fold' = o.fold
               /\ returned' = Done("Update", UpCase(dash, fold, cmd), o.err)
               /\ UNCHANGED <<nextID, nested, inflight, registry, mutex>>

NextUp == UpCreate \/ UpUpdate

SpecUp == Init /\ [][NextUp]_vars

\* the folder Get returns by UID right after an Update, to a principal that may view it
GetUpdated(o, cmd) ==
    Get(o.dash, o.fold, ByUID(cmd.uid, TRUE), Admin, NoFault, nested)

\* C13: a successful Update leaves the legacy row with a version strictly
\* greater than before.  A Get that follows returns that version, and the
\* title of the request when it names a non-empty one (trimmed in legacy
\* mode, as given in hierarchical mode), unless the mode is hierarchical and
\* the folder has no row in the nested store: then Get returns not-found.
C13_UpdateThenGet ==
    \A cmd \in UpCommands : \A c \in UpdateConditions(cmd) :
        LET o == Update(dash, fold, nextID, cmd, c.ac, c.fault)
            got == GetUpdated(o, cmd)
        IN  (SavesLeft /\ o.err = Nil) =>
                /\ o.dash[cmd.uid].version > dash[cmd.uid].version
                /\ (nested /\ cmd.uid \notin DOMAIN fold) => got.err = ErrNestedNotFound
                /\ (~nested \/ cmd.uid \in DOMAIN fold) =>
                       /\ got.err = Nil
                       /\ got.val.version = o.dash[cmd.uid].version
                       /\ cmd.newTitle \notin {Nil, ""} =>
                              got.val.title = IF nested THEN cmd.newTitle
                                              ELSE TrimSpace(cmd.newTitle)

\* an Update with a new title of a folder with both rows has succeeded
C13_Witness ==
    /\ returned.op = "Update"
    /\ returned.case.rows = 2
    /\ returned.case.title = "plain"
    /\ returned.err = Nil

\* C13 as stated: after any successful Update, Get returns the new title and
\* the new version, greater than the one before
C13_AsStated ==
    \A cmd \in UpCommands : \A c \in UpdateConditions(cmd) :
        LET o == Update(dash, fold, nextID, cmd, c.ac, c.fault)
            got == GetUpdated(o, cmd)
        IN  (SavesLeft /\ o.err = Nil) =>
                /\ got.err = Nil
                /\ got.val.version = o.dash[cmd.uid].version
                /\ got.val.version > dash[cmd.uid].version
                /\ cmd.newTitle \notin {Nil, ""} => got.val.title = cmd.newTitle

----------------------------------------------------------------------------
(* SpecGet: folders are created plainly with plain and padded titles, and   *)
(* looked up by every combination of selectors under every condition.       *)

GetTitles == {"a", " a"}

GetCreate ==
    /\ nextID <= MaxID
    /\ \E cmd \in [uid : NewUIDs(UIDs), title : GetTitles, parentUID : UIDs \cup {NoUID},
                   signedIn : {TRUE}] : CreateCall(cmd, Plain)

\* uid is NoChange for a nil pointer and NoUID for the empty string; id is
\* NoChange for a nil pointer; title is Nil for a nil pointer
GetQueries ==
    [uid : {NoChange, NoUID} \cup UIDs, id : {NoChange} \cup 0..MaxID,
     title : {Nil} \cup GetTitles, signedIn : BOOLEAN]

GetPrincipals == {Admin} \cup {Lacking("folders:read", u) : u \in UIDs}

GetFaults ==
    {NoFault, Fault("GetFolderByTitle", NoUID), Fault("store.Get", NoUID)} \cup
    {Fault(site, u) : site \in {"GetFolderByUID", "GetFolderByID", "guardian", "store.Get"},
                      u \in UIDs}

\* the row a store answers a query by title with when several match
GetChoices ==
    {Fault(site, u) : site \in {"GetFolderByTitle first", "store.Get first"}, u \in UIDs}

GetConditions(q) ==
    Conditions(GetPrincipals, GetFaults, q.signedIn) \cup
    {c \in [ac : GetPrincipals, fault : GetChoices] : q.signedIn}

\* the selectors a query supplies
Supplied(q) ==
    {sel \in {"uid", "id", "title"} :
        \/ sel = "uid" /\ q.uid # NoChange /\ q.uid # NoUID
        \/ sel = "id" /\ q.id # NoChange
        \/ sel = "title" /\ q.title # Nil}

\* the selector Get resolved the folder by and how many the query supplied
GetCase(q) == [selector |-> SelectorOf(q), supplied |-> Cardinality(Supplied(q))]

GetCall(q, c) ==
    LET o == Get(dash, fold, q, c.ac, c.fault, nested)
    IN  /\ returned' = Done("Get", GetCase(q), o.err)
        /\ UNCHANGED <<dash, fold, nextID, nested, inflight, registry, mutex>>

GetGet == \E q \in GetQueries : \E c \in GetConditions(q) : GetCall(q, c)

NextGet == GetCreate \/ GetGet

SpecGet == Init /\ [][NextGet]_vars

\* C15 (as stated): a Get by a signed-in administrator that meets no fault
\* returns BadRequest whenever the query supplies none or more than one of
\* the selectors UID, id and title.
C15_GetSelectors ==
    \A q \in GetQueries :
        (q.signedIn /\ Cardinality(Supplied(q)) # 1) =>
            Get(dash, fold, q, Admin, NoFault, nested).err = ErrBadRequest

\* a query by one selector, as the administrator
ByID(id) == [uid |-> NoChange, id |-> id, title |-> Nil, signedIn |-> TRUE]
ByTitle(title) == [uid |-> NoChange, id |-> NoChange, title |-> title, signedIn |-> TRUE]
AdminGet(q) == Get(dash, fold, q, Admin, NoFault, nested)

\* no other folder under the parent of u has the title of u, in either store
UnambiguousTitle(u) ==
    /\ \A x \in DOMAIN fold \ {u} :
           ~(fold[x].parentUID = fold[u].parentUID /\ fold[x].title = fold[u].title)
    /\ \A x \in DOMAIN dash \ {u} :
           ~(dash[x].folderUID = dash[u].folderUID /\ dash[x].title = dash[u].title)

\* C16 (as stated): for every folder with a row in both stores, Get by its
\* UID and Get by its legacy id return the same folder, and so does Get by
\* the title that Get by UID shows when no sibling has that title.
C16_GetSameFolder ==
    \A u \in DOMAIN dash \cap DOMAIN fold :
        LET byUID == AdminGet(ByUID(u, TRUE))
            byID == AdminGet(ByID(dash[u].id))
            byTitle == AdminGet(ByTitle(byUID.val.title))
        IN  /\ byUID.err = Nil
            /\ byID.err = Nil
            /\ byID.val = byUID.val
            /\ UnambiguousTitle(u) => (byTitle.err = Nil /\ byTitle.val = byUID.val)

\* C17 (as stated): whatever the query, the principal and the fault met, a
\* folder other than the root that Get returns is one the principal may view.
C17_GetOnlyViewable ==
    \A q \in GetQueries : \A c \in GetConditions(q) :
        LET o == Get(dash, fold, q, c.ac, c.fault, nested)
        IN  (o.err = Nil /\ o.val.uid # NoUID) =>
                HasAccess(c.ac, "folders:read", o.val.uid)

----------------------------------------------------------------------------
(* SpecCh: folders are created by calls that run in parallel with Delete,   *)
(* so that in legacy mode a nested row can outlive its legacy row, and      *)
(* their children are listed under every condition.                         *)

ChQueries == [uid : TreeUIDs \cup {NoUID}, signedIn : BOOLEAN]

ChPrincipals == {Admin} \cup {Lacking("folders:read", u) : u \in TreeUIDs}

ChFaults(q) ==
    {NoFault, Fault("store.GetChildren", q.uid), Fault("GetFolders", NoUID)} \cup
    {Fault("guardian", u) : u \in TreeUIDs}

ChConditions(q) == Conditions(ChPrincipals, ChFaults(q), q.signedIn)

\* the children the nested store lists, those of them without a legacy row,
\* and those of the rest the principal may not view
ChCase(d, f, q, ac) ==
    [root |-> q.uid = NoUID,
     children |-> Cardinality(ChildrenOf(f, q.uid)),
     missing |-> Cardinality(ChildrenOf(f, q.uid) \ DOMAIN d),
     hidden |-> Cardinality({u \in ChildrenOf(f, q.uid) \cap DOMAIN d :
                                ~HasAccess(ac, "folders:read", u)})]

GetChildrenCall(q, c) ==
    LET o == GetChildren(dash, fold, q, c.ac, c.fault)
    IN  /\ returned' = Done("GetChildren", ChCase(dash, fold, q, c.ac), o.err)
        /\ UNCHANGED <<dash, fold, nextID, nested, inflight, registry, mutex>>

ChGetChildren ==
    /\ inflight = {}
    /\ \E q \in ChQueries : \E c \in ChConditions(q) : GetChildrenCall(q, c)

NextCh == ConcCreateBegin \/ ConcCreateEnd \/ ConcDelete \/ ChGetChildren

SpecCh == Init /\ [][NextCh]_vars

\* the UIDs of the folders a listing returned
UIDsOf(val) == {val[i].uid : i \in 1..Len(val)}

\* C19: GetChildren of a folder other than the root, by a signed-in principal
\* whose permissions are evaluated without failure, returns AccessDenied and
\* no folder when the principal may not view that folder; whenever it
\* succeeds, it returns every child that has a legacy row, those the
\* principal may not view on their own included.
C19_ChildrenOfFolder ==
    \A q \in ChQueries : \A c \in ChConditions(q) :
        LET o == GetChildren(dash, fold, q, c.ac, c.fault)
        IN  q.uid # NoUID =>
                /\ (q.signedIn /\ ~Fails(c.fault, "guardian", q.uid)
                      /\ ~HasAccess(c.ac, "folders:read", q.uid)) =>
                       (o.err = ErrFolderAccessDenied /\ o.val = <<>>)
                /\ ~HasAccess(c.ac, "folders:read", q.uid) => (o.err # Nil /\ o.val = <<>>)
                /\ o.err = Nil =>
                       UIDsOf(o.val) = ChildrenOf(fold, q.uid) \cap DOMAIN dash

\* the children of a folder have been listed for a principal that may view
\* the folder and may not view one of the children
C19_Witness ==
    /\ returned.op = "GetChildren"
    /\ ~returned.case.root
    /\ returned.case.hidden > 0
    /\ returned.err = Nil

\* C20: a GetChildren that succeeds returns, each once, the children the
\* nested store lists for the parent that have a legacy row, and of those,
\* when the parent is the root, the ones the principal may view; a child
\* without a legacy row does not make the listing fail.
C20_ChildrenListed ==
    \A q \in ChQueries : \A c \in ChConditions(q) :
        LET o == GetChildren(dash, fold, q, c.ac, c.fault)
            listed == ChildrenOf(fold, q.uid) \cap DOMAIN dash
        IN  /\ o.err = Nil =>
                /\ UIDsOf(o.val) = {u \in listed :
                                       q.uid # NoUID \/ HasAccess(c.ac, "folders:read", u)}
                /\ Len(o.val) = Cardinality(UIDsOf(o.val))
            /\ (q.signedIn /\ c.fault = NoFault
                  /\ (q.uid = NoUID \/ HasAccess(c.ac, "folders:read", q.uid))) => o.err = Nil

\* the children of the root have been listed while one of them had no legacy
\* row and the principal could not view another
C20_Witness ==
    /\ returned.op = "GetChildren"
    /\ returned.case.root
    /\ returned.case.missing > 0
    /\ returned.case.hidden > 0
    /\ returned.err = Nil

\* every folder of a listing carries the id of its legacy row
LegacyIDs(d, val) == \A i \in 1..Len(val) : val[i].id = d[val[i].uid].id

\* the folders Get, GetChildren and Update return in hierarchical mode carry
\* the id of their legacy row
ReadsCarryLegacyID ==
    /\ \A u \in TreeUIDs :
           LET o == AdminGet(ByUID(u, TRUE))
           IN  o.err = Nil => LegacyIDs(dash, <<o.val>>)
    /\ \A q \in ChQueries :
           LET o == GetChildren(dash, fold, q, Admin, NoFault)
           IN  o.err = Nil => LegacyIDs(dash, o.val)
    /\ \A cmd \in UpdateCommands(TreeUIDs) :
           LET o == Update(dash, fold, nextID, cmd, Admin, NoFault)
           IN  o.err = Nil => LegacyIDs(o.dash, <<o.val>>)

\* C18 (as stated): in hierarchical mode every folder returned by Get,
\* GetChildren, Update or Move carries the id of its row in the legacy store.
C18_LegacyIDsReturned ==
    nested =>
        /\ ReadsCarryLegacyID
        /\ \A cmd \in MoveCommands(TreeUIDs) : \A c \in MoveConditions(cmd) :
               LET o == Move(dash, fold, nextID, cmd, c.ac, c.fault)
               IN  o.err = Nil => LegacyIDs(o.dash, <<o.val>>)

----------------------------------------------------------------------------
(* Claims C21 to C30 *)

(* SpecSh: folders are created and moved plainly, and the folders shared    *)
(* with a user are listed for every set of folder scopes the user may hold  *)
(* and every fault the listing can meet.                                     *)

ShUsers ==
    {user \in [folders : SUBSET TreeUIDs, dashboards : SUBSET TreeUIDs] :
        Cardinality(user.dashboards) <= 1}

ShFaults ==
    {NoFault, Fault("store.GetFolders", NoUID), Fault("store.GetChildren", NoUID),
     Fault("GetFolders", NoUID)} \cup
    {Fault(site, u) : site \in {"guardian", "store.GetParents"}, u \in TreeUIDs}

\* the granted folders below the root
GrantedNonRoot(user) ==
    {u \in (user.folders \cup user.dashboards) \cap DOMAIN fold : fold[u].parentUID # NoUID}

\* the folders at the root that GetChildren lists for the user
VisibleRoots(user) ==
    {u \in ChildrenOf(fold, NoUID) \cap DOMAIN dash : u \in user.folders}

\* the existing ancestors of u in the nested store
AncestorsOf(u) == ChainToRoot(fold, u) \ {u}

\* how many folders are granted below the root and how many of them have an
\* ancestor among the granted and the visible root folders
ShCase(user) ==
    [granted |-> Cardinality(GrantedNonRoot(user)),
     covered |-> Cardinality({u \in GrantedNonRoot(user) :
                     AncestorsOf(u) \cap (GrantedNonRoot(user) \cup VisibleRoots(user)) # {}}),
     far |-> \E u \in GrantedNonRoot(user) :
                 /\ fold[u].parentUID \notin GrantedNonRoot(user) \cup VisibleRoots(user)
                 /\ AncestorsOf(u) \cap (GrantedNonRoot(user) \cup VisibleRoots(user)) # {}]

ShGetSharedWithMe ==
    \E user \in ShUsers : \E fault \in ShFaults :
        LET o == GetSharedWithMe(dash, fold, user, ViewOfRoots(user, TreeUIDs), fault, nested)
        IN  /\ returned' = Done("GetSharedWithMe", ShCase(user), o.err)
            /\ UNCHANGED <<dash, fold, nextID, nested, inflight, registry, mutex>>

ShMove ==
    /\ SavesLeft
    /\ \E cmd \in MoveCommands(TreeUIDs) : cmd.signedIn /\ MoveCall(cmd, Plain)

NextSh == MvCreate \/ ShMove \/ ShGetSharedWithMe

SpecSh == Init /\ [][NextSh]_vars

MayMoveTo(cmd, ac) ==
    IF cmd.newParentUID # NoUID THEN HasAccess(ac, "folders:write", cmd.newParentUID)
    ELSE HasAccess(ac, "folders:create", NoUID)

\* C22: a Move by a principal without write permission on the destination
\* (create permission when the destination is the root) fails and leaves both
\* stores unchanged; the error is AccessDenied when the request has a
\* signed-in user and the evaluation of the permission does not fail.
C22_MoveNeedsDestination ==
    \A cmd \in MoveCommands(TreeUIDs) : \A c \in MoveConditions(cmd) :
        LET o == Move(dash, fold, nextID, cmd, c.ac, c.fault)
        IN  ~MayMoveTo(cmd, c.ac) =>
                /\ o.err # Nil
                /\ o.dash = dash
                /\ o.fold = fold
                /\ (cmd.signedIn /\ ~Fails(c.fault, "Evaluate", cmd.newParentUID)) =>
                       o.err = ErrFolderAccessDenied

\* a Move of a folder with both rows to a place it could go to has been
\* refused with AccessDenied
C22_Witness ==
    /\ returned.op = "Move"
    /\ returned.case.rows = 2
    /\ returned.case.dest \in {"root", "elsewhere"}
    /\ ~returned.case.deep
    /\ returned.err = ErrFolderAccessDenied

\* a is at the root, b under a and c under b, each with a row in both stores
IsChain(a, b, c) ==
    /\ {a, b, c} \subseteq DOMAIN fold \cap DOMAIN dash
    /\ fold[a].parentUID = NoUID
    /\ fold[b].parentUID = a
    /\ fold[c].parentUID = b

PlainMove(u, dest) == [uid |-> u, newParentUID |-> dest, signedIn |-> TRUE]

\* C23: whenever a is at the root, b under a and c under b, a Move of a under
\* c fails with CircularReference and changes nothing; the Move of c to the
\* root that follows succeeds, and GetParents of c then returns the empty list.
C23_MoveScenario ==
    \A a, b, c \in TreeUIDs :
        IsChain(a, b, c) =>
            LET first == Move(dash, fold, nextID, PlainMove(a, c), Admin, NoFault)
                second == Move(first.dash, first.fold, nextID, PlainMove(c, NoUID),
                               Admin, NoFault)
                parents == GetParents(second.fold, c, NoFault, nested)
            IN  /\ first.err = ErrCircularReference
                /\ first.dash = dash /\ first.fold = fold
                /\ second.err = Nil
                /\ second.fold[c].parentUID = NoUID
                /\ parents.err = Nil
                /\ parents.val = <<>>

\* in a chain of three folders, the Move of the top one under the bottom one
\* has been refused with CircularReference
C23_Witness ==
    /\ returned.op = "Move"
    /\ returned.case.dest = "deeper"
    /\ returned.err = ErrCircularReference
    /\ \E a, b, c \in TreeUIDs : IsChain(a, b, c)

----------------------------------------------------------------------------
(* SpecReg: handlers are registered while the registry is iterated over by  *)
(* GetDescendantCounts and by the force-delete of Delete.  RegisterService  *)
(* holds the lock from its first step to its last; the two loops over the   *)
(* registry take no lock.                                                    *)

Iterators == {"GetDescendantCounts", "deleteChildrenInFolder"}

\* RegisterService up to the lock it takes
RegisterLock ==
    \E k \in Kinds :
        /\ mutex = "free"
        /\ Cardinality(inflight) < MaxInflight
        /\ mutex' = "held"
        /\ inflight' = inflight \cup {Pending("RegisterService", {k}, 0)}
        /\ UNCHANGED <<dash, fold, nextID, nested, returned, registry>>

\* RegisterService from the write to the map to the release of the lock
RegisterUnlock ==
    \E r \in inflight :
        /\ r.op = "RegisterService"
        /\ registry' = registry \cup r.cmd
        /\ mutex' = "free"
        /\ inflight' = inflight \ {r}
        /\ returned' = Done("RegisterService", Cardinality(registry), Nil)
        /\ UNCHANGED <<dash, fold, nextID, nested>>

\* a loop over the registry begins; it has visited no handler yet
IterateBegin ==
    \E op \in Iterators :
        /\ Cardinality(inflight) < MaxInflight
        /\ inflight' = inflight \cup {Pending(op, {}, 0)}
        /\ UNCHANGED <<dash, fold, nextID, nested, returned, registry, mutex>>

\* the loop visits a handler of the registry it has not visited
IterateStep ==
    \E r \in inflight : \E k \in registry \ r.cmd :
        /\ r.op \in Iterators
        /\ inflight' = (inflight \ {r}) \cup {Pending(r.op, r.cmd \cup {k}, 0)}
        /\ UNCHANGED <<dash, fold, nextID, nested, returned, registry, mutex>>

\* the loop ends
IterateEnd ==
    \E r \in inflight :
        /\ r.op \in Iterators
        /\ inflight' = inflight \ {r}
        /\ returned' = Done(r.op, Cardinality(r.cmd), Nil)
        /\ UNCHANGED <<dash, fold, nextID, nested, registry, mutex>>

NextReg == RegisterLock \/ RegisterUnlock \/ IterateBegin \/ IterateStep \/ IterateEnd

SpecReg == Init /\ [][NextReg]_vars

\* C24 (as stated): no loop over the registry is under way while a
\* RegisterService is between taking and releasing the lock.
C24_RegistryExclusive ==
    ~ \E w \in inflight : \E i \in inflight :
          w.op = "RegisterService" /\ i.op \in Iterators

----------------------------------------------------------------------------
(* SpecCnt: folders are created, handlers are registered and the entries    *)
(* below a folder are counted, each call running alone                      *)

\* RegisterService running alone
CntRegister ==
    \E k \in Kinds :
        /\ mutex = "free"
        /\ registry' = registry \cup {k}
        /\ returned' = Done("RegisterService", Cardinality(registry), Nil)
        /\ UNCHANGED <<dash, fold, nextID, nested, inflight, mutex>>

CntQueries == [uid : TreeUIDs \cup {NoUID}, signedIn : BOOLEAN]

CntFaults ==
    {NoFault} \cup {Fault(site, u) : site \in {"store.GetChildren", "CountInFolder"},
                                     u \in TreeUIDs}

CntCase(q) ==
    [below |-> Cardinality(Descendants(fold, q.uid)),
     levels |-> Cardinality({u \in Descendants(fold, q.uid) : fold[u].parentUID # q.uid}),
     kinds |-> Cardinality(registry)]

CntGetDescendantCounts ==
    \E q \in CntQueries : \E fault \in CntFaults :
        /\ returned' = Done("GetDescendantCounts", CntCase(q),
                            GetDescendantCounts(fold, q, registry, fault, nested).err)
        /\ UNCHANGED <<dash, fold, nextID, nested, inflight, registry, mutex>>

NextCnt == MvCreate \/ CntRegister \/ CntGetDescendantCounts

SpecCnt == Init /\ [][NextCnt]_vars

RECURSIVE CountedIn(_, _)
\* what the handler of kind k counts in the folders of S, each taken once
CountedIn(k, S) ==
    IF S = {} THEN 0
    ELSE LET u == CHOOSE x \in S : TRUE
         IN  CountInFolder(k, u, NoFault).val + CountedIn(k, S \ {u})

\* C25: in hierarchical mode a GetDescendantCounts of a signed-in user for a
\* folder returns, when it meets no fault, for every registered kind the sum
\* of the handler's counts over the folder and each of its descendants taken
\* once, and as the folder count the number of its descendants; when it meets
\* a fault it returns either an error or these counts.
C25_DescendantCounts ==
    nested =>
        \A q \in CntQueries : \A fault \in CntFaults :
            (q.signedIn /\ q.uid # NoUID) =>
                LET o == GetDescendantCounts(fold, q, registry, fault, nested)
                    below == Descendants(fold, q.uid)
                IN  /\ fault = NoFault => o.err = Nil
                    /\ o.err = Nil =>
                           /\ DOMAIN o.val = registry \cup {StandardKindFolder}
                           /\ o.val[StandardKindFolder] = Cardinality(below)
                           /\ \A k \in registry :
                                  o.val[k] = CountedIn(k, {q.uid} \cup below)

\* a count has been made in hierarchical mode of a folder with a child and a
\* grandchild while two kinds were registered
C25_Witness ==
    /\ nested
    /\ returned.op = "GetDescendantCounts"
    /\ returned.err = Nil
    /\ returned.case.below >= 2
    /\ returned.case.levels >= 1
    /\ returned.case.kinds >= 2

----------------------------------------------------------------------------
\* the errors named after dashboards
DashboardVocabulary ==
    {ErrDashboardNotFound, ErrDashboardTitleEmpty, ErrDashboardUpdateAccessDenied,
     ErrDashboardWithSameNameInFolderExists, ErrDashboardWithSameUIDExists,
     ErrDashboardVersionMismatch, ErrDashboardFolderNameExists}

\* the requests of Spec to create a folder, and the same under the name of
\* the root folder
NamedCreateCommands ==
    LET cmds == CreateCommands(NewUIDs(UIDs), UIDs \cup {NoUID})
    IN  cmds \cup {[cmd EXCEPT !.title = "general"] : cmd \in cmds}

\* C26 (as stated): no Create, Update, Move or Delete, under any condition,
\* returns an error of the dashboard vocabulary.
C26_FolderVocabulary ==
    /\ \A cmd \in NamedCreateCommands : \A c \in CreateConditions(cmd) :
           nextID <= MaxID =>
               Create(dash, fold, nextID, cmd, c.ac, c.fault, nested).err
                   \notin DashboardVocabulary
    /\ \A cmd \in UpdateCommands(UIDs) : \A c \in UpdateConditions(cmd) :
           Update(dash, fold, nextID, cmd, c.ac, c.fault).err \notin DashboardVocabulary
    /\ \A cmd \in MoveCommands(UIDs) : \A c \in MoveConditions(cmd) :
           Move(dash, fold, nextID, cmd, c.ac, c.fault).err \notin DashboardVocabulary
    /\ \A cmd \in DeleteCommands(UIDs) : \A c \in DeleteConditions(fold, cmd) :
           Delete(dash, fold, cmd, c.ac, c.fault, nested).err \notin DashboardVocabulary

----------------------------------------------------------------------------
\* C27: when the legacy re-save of an Update succeeds, an Update of a folder
\* without a nested row returns without an error the folder read off the
\* legacy row just saved and leaves the nested store as it was, unless the
\* nested store fails; and when the nested store fails, Update returns that
\* failure.
C27_UpdateLegacyOnlyResult ==
    \A cmd \in UpCommands : \A c \in UpdateConditions(cmd) :
        LET o == Update(dash, fold, nextID, cmd, c.ac, c.fault)
            resaved == legacyUpdate(dash, nextID, cmd, c.ac, c.fault)
        IN  (SavesLeft /\ cmd.signedIn /\ resaved.err = Nil) =>
                /\ o.dash = resaved.dash
                /\ Fails(c.fault, "store.Update", cmd.uid) => o.err = ErrStore
                /\ (cmd.uid \notin DOMAIN fold
                        /\ ~Fails(c.fault, "store.Update", cmd.uid)) =>
                       /\ o.err = Nil
                       /\ o.fold = fold
                       /\ o.val = FolderOf(resaved.dash, cmd.uid)

\* an Update of a folder with a legacy row and no nested row has succeeded
C27_Witness ==
    /\ returned.op = "Update"
    /\ returned.case.rows = 1
    /\ returned.case.legacy
    /\ returned.err = Nil

----------------------------------------------------------------------------
(* SpecLost: Update calls made in parallel by the administrator.  A call    *)
(* reads the legacy row, validates the row it has prepared, and saves it;   *)
(* between two of these steps another call may run.  inflight keeps the     *)
(* calls begun, those that have returned with the error they returned.      *)

Callers == 1..MaxInflight

LostCommands ==
    {cmd \in [uid : UIDs, newTitle : {Nil, "b"}, newParentUID : {NoChange},
              version : 1..2, overwrite : BOOLEAN, signedIn : {TRUE}] :
        cmd.overwrite => cmd.version = 1}

LostCreate ==
    /\ nextID <= MaxID
    /\ inflight = {}
    /\ \E cmd \in CreateCommands(NewUIDs(UIDs), UIDs \cup {NoUID}) :
           cmd.signedIn /\ CreateCall(cmd, Plain)

\* what a call has come to: the step it is at ("reading" and "saving" while
\* under way; "read", "validate" or "save" for the step it has returned
\* from), the row it has read or prepared, and the error it has returned
Reached(stage, row, err) == [stage |-> stage, row |-> row, err |-> err]

\* the row of a call that has read none
NoRow == [id |-> 0, uid |-> NoUID, title |-> "", folderUID |-> NoUID, version |-> 0]

\* the call of caller id has returned err from its step at
LostReturn(r, at, err) ==
    /\ inflight' = (inflight \ {r}) \cup
                       {[r EXCEPT !.id = Reached(at, NoRow, err)]}
    /\ returned' = Done("Update", [at |-> at, caller |-> r.caller], err)

\* legacyUpdate up to the row read from the legacy store
LostRead ==
    \E caller \in Callers : \E cmd \in LostCommands :
        LET queryResult == GetDashboard(dash, cmd.uid, NoFault)
            r == [op |-> "Update", cmd |-> cmd, caller |-> caller, id |-> 0]
            Read(cur) == [id |-> cur.id, uid |-> cmd.uid, title |-> cur.title,
                          folderUID |-> cur.folderUID, version |-> cur.version]
        IN  /\ \A x \in inflight : x.caller # caller
            /\ IF queryResult.err # Nil
               THEN /\ inflight' = inflight \cup
                           {[r EXCEPT !.id = Reached("read", NoRow,
                                                     toFolderError(queryResult.err))]}
                    /\ returned' = Done("Update", [at |-> "read", caller |-> caller],
                                        toFolderError(queryResult.err))
               ELSE /\ inflight' = inflight \cup
                           {[r EXCEPT !.id = Reached("reading", Read(queryResult.val), Nil)]}
                    /\ UNCHANGED returned
            /\ UNCHANGED <<dash, fold, nextID, nested, registry, mutex>>

\* legacyUpdate from the row read to the save command built
LostValidate ==
    \E r \in inflight :
        /\ r.id.stage = "reading"
        /\ LET dashFolder == prepareForUpdate(r.id.row, r.cmd)
               save == buildSaveDashboardCommand(dash, dashFolder, r.cmd.overwrite,
                                                 Admin, NoFault)
           IN  IF save.err # Nil
               THEN LostReturn(r, "validate", toFolderError(save.err))
               ELSE /\ inflight' = (inflight \ {r}) \cup
                           {[r EXCEPT !.id = Reached("saving", save.cmd, Nil)]}
                    /\ UNCHANGED returned
        /\ UNCHANGED <<dash, fold, nextID, nested, registry, mutex>>

\* legacyUpdate from the save of the row, and the rest of Update
LostSave ==
    \E r \in inflight :
        /\ r.id.stage = "saving"
        /\ LET dsh == SaveDashboard(dash, nextID, r.id.row, r.cmd.overwrite, NoFault)
               foldr == StoreUpdate(fold, r.cmd.uid, r.cmd.newTitle, NoChange, NoFault)
           IN  IF dsh.err # Nil
               THEN /\ LostReturn(r, "save", toFolderError(dsh.err))
                    /\ UNCHANGED <<dash, fold>>
               ELSE /\ dash' = dsh.dash
                    /\ fold' = foldr.fold
                    /\ LostReturn(r, "save", Nil)
        /\ UNCHANGED <<nextID, nested, registry, mutex>>

NextLost == LostCreate \/ LostRead \/ LostValidate \/ LostSave

SpecLost == Init /\ [][NextLost]_vars

HasReturned == {"read", "validate", "save"}

\* two calls that have returned, for the same folder with the same version
\* and without overwrite
SameToken(a, b) ==
    /\ a.caller # b.caller
    /\ a.id.stage \in HasReturned /\ b.id.stage \in HasReturned
    /\ a.cmd.uid = b.cmd.uid
    /\ a.cmd.version = b.cmd.version
    /\ ~a.cmd.overwrite /\ ~b.cmd.overwrite

----------------------------------------------------------------------------
\* C29: a Delete by a principal who may not delete the target folder returns
\* an error, leaves both stores as they were and attempts no delete of a
\* legacy row; for a signed-in principal and a target with a legacy row the
\* error is AccessDenied.
C29_DeleteNeedsCapability ==
    \A cmd \in DeleteCommands(TreeUIDs) : \A c \in DeleteConditions(fold, cmd) :
        LET o == Delete(dash, fold, cmd, c.ac, c.fault, nested)
        IN  ~HasAccess(c.ac, "folders:delete", cmd.uid) =>
                /\ o.err # Nil
                /\ o.dash = dash
                /\ o.fold = fold
                /\ o.log = <<>>
                /\ (cmd.signedIn /\ cmd.uid \in DOMAIN dash) =>
                       o.err = ErrFolderAccessDenied

\* a Delete of a folder with both rows and folders below it has been refused
\* with AccessDenied
C29_Witness ==
    /\ returned.op = "Delete"
    /\ returned.case.rows = 2
    /\ returned.case.below >= 1
    /\ returned.err = ErrFolderAccessDenied

----------------------------------------------------------------------------
\* the UIDs of the legacy rows a Delete has deleted, in the order of the calls
LegacyDeletes(log) == SelectSeq(log, LAMBDA call : call[1] = "DeleteDashboard")

\* C30 (as stated): in a Delete that succeeds, the legacy row of a folder is
\* deleted before the legacy row of its parent, hence the row of the target
\* last.
C30_DescendantsFirst ==
    \A cmd \in DeleteCommands(TreeUIDs) :
        LET o == Delete(dash, fold, cmd, Admin, NoFault, nested)
            deleted == LegacyDeletes(o.log)
        IN  (cmd.signedIn /\ o.err = Nil) =>
                \A i \in 1..Len(deleted) : \A j \in 1..Len(deleted) :
                    fold[deleted[i][2]].parentUID = deleted[j][2] => i < j

----------------------------------------------------------------------------
(* Claims C31 to C38 *)

(* SpecForce: handlers are registered, folders are created plainly and     *)
(* deleted with and without force-delete-rules, each call running alone.    *)

ForceCase(d, f, cmd) ==
    [rows |-> DeleteCase(d, f, cmd).rows,
     below |-> DeleteCase(d, f, cmd).below,
     force |-> cmd.forceDeleteRules,
     kinds |-> Cardinality(registry)]

ForceDelete ==
    \E cmd \in DeleteCommands(TreeUIDs) :
        /\ cmd.signedIn
        /\ LET o == Delete(dash, fold, cmd, Admin, NoFault, nested)
           IN  /\ dash' = o.dash
               /\ fold' = o.fold
               /\ returned' = Done("Delete", ForceCase(dash, fold, cmd), o.err)
               /\ UNCHANGED <<nextID, nested, inflight, registry, mutex>>

NextForce == MvCreate \/ ForceDelete \/ CntRegister

SpecForce == Init /\ [][NextForce]_vars

\* the position of the first call of site for folder u in log, 0 if there is none
CallAt(log, site, u) ==
    IF \E i \in 1..Len(log) : log[i] = <<site, u>>
    THEN CHOOSE i \in 1..Len(log) :
             /\ log[i] = <<site, u>>
             /\ \A j \in 1..(i - 1) : log[j] # <<site, u>>
    ELSE 0

\* the handlers whose DeleteInFolder a Delete that made the calls of log has
\* invoked for folder u: deleteChildrenInFolder invokes every handler of reg
HandlersInvoked(reg, log, u) ==
    IF CallAt(log, "DeleteInFolder", u) # 0 THEN reg ELSE {}

----------------------------------------------------------------------------
\* C32 (as stated): an Update that returns an error has modified neither the
\* legacy row nor the nested row of the folder.
C32_UpdateNoEffectOnError ==
    \A cmd \in UpCommands : \A c \in UpdateConditions(cmd) :
        LET o == Update(dash, fold, nextID, cmd, c.ac, c.fault)
        IN  (SavesLeft /\ o.err # Nil) => (o.dash = dash /\ o.fold = fold)

----------------------------------------------------------------------------
----------------------------------------------------------------------------
(* SpecMiss: folders are created plainly and deleted by the administrator, *)
(* the batch lookup of the legacy rows answering in full or without the    *)
(* row of one of the folders collected.                                     *)

MissFaults(f, cmd) ==
    {NoFault} \cup {Fault("GetFolders row", u) : u \in DeleteReach(f, cmd)}

MissDelete ==
    \E cmd \in DeleteCommands(TreeUIDs) : \E fault \in MissFaults(fold, cmd) :
        /\ cmd.signedIn
        /\ DeleteCall(cmd, [ac |-> Admin, fault |-> fault])

NextMiss == MvCreate \/ MissDelete

SpecMiss == Init /\ [][NextMiss]_vars

\* C34 (as stated): a Delete returns success only when the legacy row of the
\* target and of every folder collected below it has been deleted; when the
\* batch lookup lacks a collected folder it returns an error and both stores
\* are as they were.
C34_DeleteAllOrError ==
    \A cmd \in DeleteCommands(TreeUIDs) : \A fault \in MissFaults(fold, cmd) :
        LET o == Delete(dash, fold, cmd, Admin, fault, nested)
            collected == {cmd.uid} \cup Descendants(fold, cmd.uid)
        IN  cmd.signedIn =>
                /\ o.err = Nil => collected \cap DOMAIN o.dash = {}
                /\ (fault # NoFault /\ fault.uid \in DOMAIN dash) =>
                       (o.err # Nil /\ o.dash = dash /\ o.fold = fold)

----------------------------------------------------------------------------
(* SpecView: folders are created plainly and deleted by principals who may *)
(* delete the target and may not view one of the folders at or below it.   *)

ViewPrincipals(f, cmd) ==
    {Admin} \cup {Lacking("folders:read", u) : u \in DeleteReach(f, cmd)}

\* where the folder the principal may not view lies with respect to the target
ViewCase(d, f, cmd, ac) ==
    [rows |-> DeleteCase(d, f, cmd).rows,
     below |-> DeleteCase(d, f, cmd).below,
     hidden |-> CASE ac = Admin -> "none"
                  [] ac = Lacking("folders:read", cmd.uid) -> "target"
                  [] \E u \in ChildrenOf(f, cmd.uid) : ac = Lacking("folders:read", u)
                       -> "child"
                  [] OTHER -> "deeper"]

ViewDelete ==
    \E cmd \in DeleteCommands(TreeUIDs) : \E ac \in ViewPrincipals(fold, cmd) :
        /\ cmd.signedIn
        /\ LET o == Delete(dash, fold, cmd, ac, NoFault, nested)
           IN  /\ dash' = o.dash
               /\ fold' = o.fold
               /\ returned' = Done("Delete", ViewCase(dash, fold, cmd, ac), o.err)
               /\ UNCHANGED <<nextID, nested, inflight, registry, mutex>>

NextView == MvCreate \/ ViewDelete

SpecView == Init /\ [][NextView]_vars

\* C35: a Delete by a signed-in principal who may delete the target and may
\* not view a folder below it returns AccessDenied and leaves both stores as
\* they were, the target and every folder below it included.
C35_CascadeChecksView ==
    \A cmd \in DeleteCommands(TreeUIDs) :
        \A u \in Descendants(fold, cmd.uid) :
            LET o == Delete(dash, fold, cmd, Lacking("folders:read", u), NoFault, nested)
            IN  (cmd.signedIn /\ cmd.uid # NoUID) =>
                    /\ o.err = ErrFolderAccessDenied
                    /\ o.dash = dash
                    /\ o.fold = fold

\* a Delete of a folder with both rows has been refused with AccessDenied
\* because the principal might not view a folder two levels below it
C35_Witness ==
    /\ returned.op = "Delete"
    /\ returned.case.rows = 2
    /\ returned.case.hidden = "deeper"
    /\ returned.err = ErrFolderAccessDenied
    /\ Cardinality(DOMAIN fold) = NumTreeUIDs

----------------------------------------------------------------------------
\* the parent in the legacy row of every folder with both rows is the parent
\* in its nested row
SameParents(d, f) ==
    \A u \in DOMAIN d \cap DOMAIN f : d[u].folderUID = f[u].parentUID

\* the requests of Spec to update a folder, carrying a new parent as well
ReparentingCommands ==
    {[cmd EXCEPT !.newParentUID = p] : cmd \in UpdateCommands(UIDs), p \in UIDs \cup {NoUID}}

\* C36 (as stated): after any completed calls, in hierarchical or in legacy
\* mode, the parent in the legacy row of a folder is the parent in its nested
\* row, and an Update carrying a new parent that succeeds leaves them equal.
C36_SameParents ==
    /\ SameParents(dash, fold)
    /\ \A cmd \in ReparentingCommands :
           LET o == Update(dash, fold, nextID, cmd, Admin, NoFault)
           IN  (SameParents(dash, fold) /\ o.err = Nil) => SameParents(o.dash, o.fold)

----------------------------------------------------------------------------
(* A Create that fails, and the rows of the folders that were there before *)

\* the rows of d whose legacy id is not id are in e as they are in d
KeepsOtherRows(d, e, id) ==
    \A u \in DOMAIN d : d[u].id # id => (u \in DOMAIN e /\ e[u] = d[u])

RollbackFaults(cmd) ==
    {NoFault, Fault("store.Create", cmd.uid), Fault("DeleteDashboard", cmd.uid)}

\* C37: a Create that fails, whatever the command, the principal and the
\* fault met and whether it ran alone or in parallel with other calls, leaves
\* the rows of every folder that existed before it as they were in both
\* stores: the rollback removes at most the legacy row that same call wrote.
C37_FailedCreateKeepsOthers ==
    /\ \A cmd \in CreateCommands(TreeUIDs, TreeUIDs \cup {NoUID}) :
         \A c \in CreateConditions(cmd) :
            LET o == Create(dash, fold, nextID, cmd, c.ac, c.fault, nested)
            IN  o.err # Nil => (KeepsOtherRows(dash, o.dash, 0) /\ o.fold = fold)
    /\ \A r \in inflight : \A fault \in RollbackFaults(r.cmd) :
            LET o == CreateStore(dash, fold, r.id, r.cmd, fault)
            IN  (r.op = "Create" /\ o.err # Nil) =>
                    (KeepsOtherRows(dash, o.dash, r.id) /\ o.fold = fold)

\* a Create has failed on a UID the nested store already held, and rows of
\* both stores are still there
C37_Witness ==
    /\ returned.op = "Create"
    /\ returned.err = ErrStore
    /\ returned.case.taken
    /\ dash # << >>
    /\ fold # << >>

----------------------------------------------------------------------------
(* The recursions of Delete and GetDescendantCounts on any nested store *)

TraversalQueries == [uid : TreeUIDs, signedIn : {TRUE}]

TraversalDeletes == {cmd \in DeleteCommands(TreeUIDs) : cmd.signedIn /\ cmd.uid # NoUID}

\* C38 (as stated): in every state of the nested store, a cycle among the
\* parents included, the descent of getNestedFolders from any folder, the
\* GetDescendantCounts that makes it and the Delete of any folder return: the
\* recursion never goes deeper than the number of folders in the store.
C38_TraversalTerminates ==
    /\ \A u \in TreeUIDs :
            getNestedFolders(fold, u, NoFault, Cardinality(DOMAIN fold) + 1).err
                # ErrStackExhausted
    /\ \A q \in TraversalQueries :
            GetDescendantCounts(fold, q, {}, NoFault, TRUE).err # ErrStackExhausted
    /\ \A cmd \in TraversalDeletes :
            Delete(dash, fold, cmd, Admin, NoFault, nested).err # ErrStackExhausted

====
